---- MODULE Spec2Model ----
(***************************************************************************)
(* A model of the rosetta run orchestrator of molecbio: the metrics ledger *)
(* (rosetta/util.py, ScoresDict), the ranked renumbering of decoys, the    *)
(* distance-constraint filter (rosetta/pdbFilter.py, PdbFilter) and the    *)
(* retry loop of FilterPdbs.run (rosetta/baseClasses.py).                  *)
(*                                                                         *)
(* A file name is a record [stem, digits, ext]: the text                   *)
(*     stem[1]_..._stem[k]_<digits>.ext[1]. ... .ext[m]                    *)
(* so that 'base_0001.pdb' is [stem |-> <<"base">>, digits |-> <<0,0,0,1>>,*)
(* ext |-> <<"pdb">>] and 'base_0001.pdb.temp' has ext <<"pdb","temp">>.   *)
(***************************************************************************)
EXTENDS Integers, Sequences, FiniteSets, TLC

\* ---------------------------------------------------------------- bounds
\* The largest number of decoys in the directory of a renumbering run.
MaxN == 3
\* The largest number of decoys of the directory that fail a constraint.
MaxBad == 1

\* ----------------------------------------------------------------- state
VARIABLES
    disk,            \* the output directory: file name -> content [id, geom]
    scoreFile,       \* the score file on disk: the set of its score lines
    scores,          \* ScoresDict (the dict itself): name -> metrics record
    lines,           \* ScoresDict.lines: name -> score line
    newOrder,        \* orderAndTrimDecoys: the ranked list handed to __reorderDecoys
    l,               \* __reorderDecoys: the working copy of the list
    idx,             \* __reorderDecoys: i of enumerate(l)
    ops,             \* the ledger and file renames the current iteration still has to do
    pc,              \* where the coordinator is
    start,           \* the directory and ledger when __reorderDecoys was entered
                     \* (disk, scores, lines) and when orderAndTrimDecoys was
                     \* (diskBefore, scoresBefore)
    keepTopDecoys,   \* BaseClass.keepTopDecoys
    distConstraints, \* PdbFilter.distConstraints: chain -> list of <<res, dist>>
    geometry,        \* the evaluator's input: what was parsed from one artifact
    evalResult,      \* what __testConstraints returned for it
    calls,           \* the calls made on the ScoresDict, in order
    hist,            \* the ScoresDict before each of these calls
    constraints,     \* FilterPdbs.constraints: list of <<res, toChain, dist>>
    numStruct,       \* BaseClass.numStruct: the number of decoys asked for
    numFinished,     \* FilterPdbs.run: numFinished
    retcode,         \* FilterPdbs.run: retcode
    batches,         \* the number of batches launched so far
    workerFailed,    \* some worker of some batch has exited with a nonzero code
    tempFiles,       \* BaseClass._tempFiles, in the order of registration
    result,          \* what run() returned
    numCPUs,         \* BaseClass.numCPUs: the number of worker processes of a batch
    procs,           \* _run: worker index -> "running", "ok" (exit 0) or "failed"
    dirExists,       \* the output directory exists
    registered,      \* every path that was ever appended to _tempFiles
    inputExists,     \* os.path.isfile(self.inputPdb)
    supps,           \* _generateSupplements: the '-nstruct' of the supplements so far
    structLeft,      \* _generateSupplements: its local numStruct
    cpusLeft,        \* _generateSupplements: its local numCPUs
    metrics,         \* ScoresDict.__metrics: the metric columns of the header
    sortMetric,      \* the argument of ScoresDict.sort
    sortResult,      \* what ScoresDict.sort returned
    rawFile,         \* the text of a score file: [header, body], lists of tokens
    suffix,          \* the suffix of the score file's name
    scoreType,       \* ScoresDict.__type ("None" for None)
    rankingMetric,   \* ScoresDict.__rankingMetric ("None" for None)
    header,          \* ScoresDict.__header
    residuesToParse, \* PdbFilter.residuesToParse: chain -> list of residue codes
    prevCount,       \* _run: prevCount
    reports,         \* the numDone of the _reportProgress calls of one _run, in order
    fileList,        \* parseDecoys: the files os.listdir yielded, in that order
    fileIdx,         \* parseDecoys: how many of them the loop has gone through
    parsed,          \* the four dicts __parseCoordsFromPdb filled for the last file
    filesToKeep,     \* parseDecoys: filesToKeep
    deleted,         \* parseDecoys: the files removed so far
    passResult,      \* what parseDecoys returned, or the exception that left it
    odDict,          \* OrderedDict: the items of the dict itself
    odKeys,          \* OrderedDict.__keys
    odLast           \* the last call on the OrderedDict and what it gave

ledgerVars == <<disk, scoreFile, scores, lines, newOrder, l, idx, ops, pc, start,
                keepTopDecoys>>
evalVars == <<geometry, evalResult>>
callVars == <<calls, hist>>
runVars == <<constraints, numStruct, numFinished, retcode, batches, workerFailed,
             tempFiles, result>>
poolVars == <<numCPUs, procs, dirExists, registered, inputExists>>
splitVars == <<supps, structLeft, cpusLeft>>
sortVars == <<metrics, sortMetric, sortResult>>
loadVars == <<rawFile, header, suffix, scoreType, rankingMetric>>
addVars == <<residuesToParse>>
pollVars == <<prevCount, reports>>
passVars == <<fileList, fileIdx, parsed, filesToKeep, deleted, passResult>>
odVars == <<odDict, odKeys, odLast>>
moreVars == <<passVars, odVars>>
auxVars == <<poolVars, splitVars, sortVars, loadVars, addVars, pollVars, moreVars>>
restVars == <<evalVars, callVars, runVars, auxVars>>
vars == <<ledgerVars, distConstraints, evalVars, callVars, runVars, auxVars>>

\* ------------------------------------------------------------ dict helpers
\* d with key k deleted (del d[k], d.pop(k)).
Drop(d, k) == [x \in (DOMAIN d) \ {k} |-> d[x]]
\* d with d[k] = v assigned.
Put(d, k, v) == [x \in (DOMAIN d) \cup {k} |-> IF x = k THEN v ELSE d[x]]
\* The empty dict.
Empty == [x \in {} |-> x]

\* ------------------------------------------------------------------ names
\* '%.4d' % n and '%04d' % n for 0 <= n < 10000: four decimal digits.
Fmt4(n) == << (n \div 1000) % 10, (n \div 100) % 10, (n \div 10) % 10, n % 10 >>
\* The name of the run's output: self.outputName.
Basename == <<"base">>
\* '%s_%.4d.pdb' % (basename, n)
CanonName(basename, n) == [stem |-> basename, digits |-> Fmt4(n), ext |-> <<"pdb">>]
\* '%s_deleted_%04d.pdb' % (basename, n)
DeletedName(basename, n) ==
    [stem |-> Append(basename, "deleted"), digits |-> Fmt4(n), ext |-> <<"pdb">>]
\* name + '.temp'
TempName(name) == [name EXCEPT !.ext = Append(@, "temp")]
\* name.endswith('.pdb')
EndsWithPdb(name) == Len(name.ext) > 0 /\ name.ext[Len(name.ext)] = "pdb"
\* name.endswith('.temp')
IsTemp(name) == Len(name.ext) > 0 /\ name.ext[Len(name.ext)] = "temp"
\* The value False that __reorderDecoys writes over a handled entry of l.
PyFalse == [false |-> TRUE]

\* ------------------------------------------------------------- score file
\* A score line is [fields, token]: the metric columns (the text before the
\* last blank) and the trailing file name token. fields is [id, total_score]:
\* total_score is the ranking metric, id stands for the other columns, which
\* tell one decoy's scores from another's.
\*
\* __parseScoresFile, the key of a line: the token, with '.pdb' appended when
\* it does not end with it.
KeyOfLine(line) ==
    IF EndsWithPdb(line.token) THEN line.token
    ELSE [line.token EXCEPT !.ext = Append(@, "pdb")]
\* __parseScoresFile, the metrics record of a line: its columns zipped with
\* the header.
MetricsOfLine(line) == line.fields
\* A line cut short after its first column: a lone 'SCORE:', which the
\* parser cannot read (segs.pop() raises IndexError).
MalformedLine ==
    [fields |-> Empty, token |-> [stem |-> <<>>, digits |-> <<>>, ext |-> <<>>]]
\* The file has a line that the parser cannot read.
Unparseable(file) == MalformedLine \in file
\* ScoresDict.__init__ over the score file of the directory: the dict and
\* self.lines. file is the set of the file's lines, whose keys are distinct.
\* With a line that cannot be read the parser empties both and raises.
LoadScores(file) ==
    IF Unparseable(file) THEN [scores |-> Empty, lines |-> Empty, raised |-> TRUE]
    ELSE
    [scores |-> [k \in {KeyOfLine(ln) : ln \in file} |->
                    MetricsOfLine(CHOOSE ln \in file : KeyOfLine(ln) = k)],
     lines  |-> [k \in {KeyOfLine(ln) : ln \in file} |->
                    CHOOSE ln \in file : KeyOfLine(ln) = k],
     raised |-> FALSE]
\* saveScores: the lines of self.lines for the names of the dict (the order of
\* the lines in the file, sorted by name, is not modelled).
SaveScores(L) == {L.lines[k] : k \in DOMAIN L.scores}

\* ------------------------------------------- ScoresDict.__parseScoresFile
\* The text of a score file is [header, body]: the header line and the
\* lines after it, each the list of its blank-separated tokens,
\*     SCORE: <total_score> <id> <description>
\* A line of fewer than two tokens (a blank line, a lone 'SCORE:') makes
\* segs.pop() raise IndexError.
\*
\* The header line of the workers' score file.
HeaderLine == <<"SCORE:", "total_score", "id", "description">>
\* The line of the decoy n, as tokens.
RawLine(n, score) == <<"SCORE:", score, n, [n EXCEPT !.ext = <<>>]>>
\* The lines a file is made of: two decoys' lines, a blank line and a lone
\* 'SCORE:'.
RawLineChoices ==
    {RawLine(CanonName(Basename, 1), 1), RawLine(CanonName(Basename, 2), 2),
     <<>>, <<"SCORE:">>}

\* The names of the scenario's file: 'a.pdb' and 'b.pdb'.
ScenarioA == [stem |-> <<"a">>, digits |-> <<>>, ext |-> <<"pdb">>]
ScenarioB == [stem |-> <<"b">>, digits |-> <<>>, ext |-> <<"pdb">>]
\* The header 'total_score I_sc description' and the same after the column
\* 'SCORE:'.
ScenarioHeader == <<"total_score", "I_sc", "description">>
LabelledHeader == <<"SCORE:">> \o ScenarioHeader
\* The lines of a.pdb (-10, -3) and b.pdb (-5, -1), with the columns of
\* ScenarioHeader and with those of LabelledHeader.
ScenarioLineChoices ==
    {<<-10, -3, ScenarioA>>, <<-5, -1, ScenarioB>>,
     <<"SCORE:", -10, -3, ScenarioA>>, <<"SCORE:", -5, -1, ScenarioB>>}
\* The headers tried: those above, headers of homology, loop modelling and
\* ab initio files, one of unknown metrics, one without metrics and that of
\* an empty file.
HeaderChoices ==
    {HeaderLine, ScenarioHeader, LabelledHeader,
     <<"SCORE:", "total_score", "aln_len", "description">>,
     <<"SCORE:", "total_energy", "score", "description">>,
     <<"SCORE:", "score", "rms", "description">>,
     <<"SCORE:", "rms", "gdtmm", "description">>,
     <<"SCORE:", "description">>, <<>>}
\* The suffixes of the files that __isScoreFile takes, as written.
SuffixChoices == {"sc", "fsc", "fasc", "SC"}

\* x in list
InSeq(x, list) == \E i \in 1..Len(list) : list[i] = x
\* __determineType as a bug would have it: the ranking metric is always the
\* first metric.
DetermineTypeFirstMetric(metricList, suffix0, type0) ==
    IF metricList = <<>> THEN [type |-> "unknown", rankingMetric |-> metricList, raised |-> TRUE]
    ELSE [type |-> "unknown", rankingMetric |-> metricList[1], raised |-> FALSE]
\* ScoresDict.__determineType on self.__metrics and the suffix of the file,
\* self.__type being type0: [type, rankingMetric, raised]. metrics[0] of an
\* empty list raises IndexError, the ranking metric staying the list that
\* the parser left.
DetermineType(metricList, suffix0, type0) ==
    IF InSeq("total_score", metricList)
    THEN [type |-> IF InSeq("I_sc", metricList) THEN "docking"
                   ELSE IF InSeq("aln_len", metricList) THEN "homology"
                   ELSE IF suffix0 = "sc" THEN "floppytail"
                   ELSE type0,
          rankingMetric |-> "total_score", raised |-> FALSE]
    ELSE IF InSeq("total_energy", metricList)
    THEN [type |-> "loopmodel", rankingMetric |-> "total_energy", raised |-> FALSE]
    ELSE IF InSeq("score", metricList)
    THEN [type |-> IF suffix0 = "fsc" THEN "abinitio" ELSE type0,
          rankingMetric |-> "score", raised |-> FALSE]
    ELSE IF metricList = <<>>
    THEN [type |-> "unknown", rankingMetric |-> metricList, raised |-> TRUE]
    ELSE [type |-> "unknown", rankingMetric |-> metricList[1], raised |-> FALSE]

\* line.split()[1:] and header.split()[1:]
SplitFromOne(tokens) == IF tokens = <<>> THEN <<>> ELSE Tail(tokens)
\* scoresHeader as a bug would have it: 'description' is kept.
ScoresHeaderKeepsDescription(headerTokens) == SplitFromOne(headerTokens)
\* scoresHeader: the columns of the header but the first and 'description'.
ScoresHeader(headerTokens) ==
    LET Keep(t) == t # "description"
    IN  SelectSeq(SplitFromOne(headerTokens), Keep)
\* dict(zip(scoresHeader, segs))
ZipDict(keys, vals) ==
    LET n == IF Len(keys) <= Len(vals) THEN Len(keys) ELSE Len(vals)
    IN  [k \in {keys[i] : i \in 1..n} |->
            vals[CHOOSE i \in 1..n : keys[i] = k /\ \A j \in (i + 1)..n : keys[j] # k]]
\* The score line that self.lines keeps for a line of the file.
LineOf(tokens, metricList) ==
    LET segs == SplitFromOne(tokens)
    IN  [fields |-> ZipDict(metricList, SubSeq(segs, 1, Len(segs) - 1)),
         token |-> segs[Len(segs)]]

\* The except clause as a bug would have it: what was parsed is kept.
ClearOnErrorKeeps(acc) == [acc EXCEPT !.raised = TRUE]

\* The except clause of __parseScoresFile: header, lines and the dict are
\* emptied, and the exception is raised again.
ClearOnError(acc) ==
    [acc EXCEPT !.scores = Empty, !.lines = Empty, !.header = <<>>, !.raised = TRUE]

\* 'for line in f' of __parseScoresFile over the lines todo.
RECURSIVE ParseLines(_, _)
ParseLines(todo, acc) ==
    IF todo = <<>> THEN acc
    ELSE IF SplitFromOne(Head(todo)) = <<>> THEN ClearOnError(acc)
    ELSE LET line == LineOf(Head(todo), acc.metrics)
             name == KeyOfLine(line)
         IN  ParseLines(Tail(todo),
                        [acc EXCEPT !.scores = Put(@, name, MetricsOfLine(line)),
                                    !.lines = Put(@, name, line)])

\* ScoresDict.__parseScoresFile: [scores, lines, header, metrics, raised].
ParseScoresFile(file) ==
    ParseLines(file.body,
               [scores |-> Empty, lines |-> Empty, header |-> file.header,
                metrics |-> ScoresHeader(file.header), raised |-> FALSE])

\* A score line of self.lines as the tokens line.split() gives.
LineTokens(line) == <<"SCORE:", line.fields.total_score, line.fields.id, line.token>>
\* The members of S in some order.
RECURSIVE SeqOf(_)
SeqOf(S) ==
    IF S = {} THEN <<>>
    ELSE LET x == CHOOSE y \in S : TRUE IN <<x>> \o SeqOf(S \ {x})
\* saveScores, the text written: the header and the lines of self.lines for
\* the names of the dict. (The lines are written sorted by name; the order
\* matters to a later load only when two lines have the same key, and then
\* the dict had two names where the file gives one.)
SaveText(L, hdr) ==
    [header |-> hdr, body |-> SeqOf({LineTokens(L.lines[k]) : k \in DOMAIN L.scores})]

\* ------------------------------------------------- ScoresDict, the ledger
\* A ledger value L is [scores, lines, raised]; raised says that the call
\* ended with an exception (KeyError), which leaves what was done before it.
\*
\* remove as a bug would have it: the score line of the name is kept.
LedgerRemoveKeepsLine(L, name) ==
    IF name \in DOMAIN L.scores THEN [L EXCEPT !.scores = Drop(@, name)] ELSE L

\* ScoresDict.remove
LedgerRemove(L, name) ==
    IF name \in DOMAIN L.scores
    THEN IF name \in DOMAIN L.lines
         THEN [L EXCEPT !.scores = Drop(@, name), !.lines = Drop(@, name)]
         ELSE [L EXCEPT !.scores = Drop(@, name), !.raised = TRUE]
    ELSE L

\* ScoresDict.rename as a bug would have it: the record is copied, not moved.
LedgerRenameKeepsOld(L, old, new) ==
    IF old = new \/ old \notin DOMAIN L.lines \/ old \notin DOMAIN L.scores THEN L
    ELSE [L EXCEPT !.lines = Put(@, new, [L.lines[old] EXCEPT !.token = new]),
                   !.scores = Put(@, new, L.scores[old])]

\* rename as a bug would have it: the score line keeps the old name.
LedgerRenameStaleLine(L, old, new) ==
    IF old = new THEN L
    ELSE IF old \notin DOMAIN L.lines THEN [L EXCEPT !.raised = TRUE]
    ELSE LET lines2 == Put(Drop(L.lines, old), new, L.lines[old])
         IN  IF old \notin DOMAIN L.scores
             THEN [L EXCEPT !.lines = lines2, !.raised = TRUE]
             ELSE [L EXCEPT !.lines = lines2,
                            !.scores = Put(Drop(L.scores, old), new, L.scores[old])]

\* rename as a bug would have it: without the return of 'if old == new'.
LedgerRenameNoReturn(L, old, new) ==
    IF old \notin DOMAIN L.lines THEN [L EXCEPT !.raised = TRUE]
    ELSE LET newScoreLine == [L.lines[old] EXCEPT !.token = new]
             lines2 == Put(Drop(L.lines, old), new, newScoreLine)
         IN  IF old \notin DOMAIN L.scores
             THEN [L EXCEPT !.lines = lines2, !.raised = TRUE]
             ELSE [L EXCEPT !.lines = lines2,
                            !.scores = Put(Drop(L.scores, old), new, L.scores[old])]

\* rename as a design that detects a held new name would have it: it raises
\* and changes nothing.
LedgerRenameRefusesHeld(L, old, new) ==
    IF old = new THEN L
    ELSE IF old \notin DOMAIN L.lines \/ new \in DOMAIN L.scores THEN [L EXCEPT !.raised = TRUE]
    ELSE [L EXCEPT !.lines = Put(Drop(L.lines, old), new, [L.lines[old] EXCEPT !.token = new]),
                   !.scores = Put(Drop(L.scores, old), new, L.scores[old])]

\* ScoresDict.rename
LedgerRename(L, old, new) ==
    IF old = new THEN L
    ELSE IF old \notin DOMAIN L.lines THEN [L EXCEPT !.raised = TRUE]
    ELSE LET newScoreLine == [L.lines[old] EXCEPT !.token = new]
             lines2 == Put(Drop(L.lines, old), new, newScoreLine)
         IN  IF old \notin DOMAIN L.scores
             THEN [L EXCEPT !.lines = lines2, !.raised = TRUE]
             ELSE [L EXCEPT !.lines = lines2,
                            !.scores = Put(Drop(L.scores, old), new, L.scores[old])]

\* swap as a bug would have it: the record held under the temporary name is
\* copied to nameB, not moved.
LedgerSwapLeavesTemp(L, nameA, nameB) ==
    IF nameA = nameB THEN L
    ELSE LET tempName == TempName(nameA)
             L1 == LedgerRename(L, nameA, tempName)
             L2 == LedgerRename(L1, nameB, nameA)
         IN  IF L1.raised THEN L1
             ELSE IF L2.raised THEN L2
             ELSE LedgerRenameKeepsOld(L2, tempName, nameB)

\* swap as a design that undoes a failed exchange would have it.
LedgerSwapUndoes(L, nameA, nameB) ==
    IF nameA = nameB THEN L
    ELSE LET tempName == TempName(nameA)
             L1 == LedgerRename(L, nameA, tempName)
             L2 == LedgerRename(L1, nameB, nameA)
         IN  IF L1.raised \/ L2.raised THEN [L EXCEPT !.raised = TRUE]
             ELSE LedgerRename(L2, tempName, nameB)

\* ScoresDict.swap
LedgerSwap(L, nameA, nameB) ==
    IF nameA = nameB THEN L
    ELSE LET tempName == TempName(nameA)
             L1 == LedgerRename(L, nameA, tempName)
             L2 == LedgerRename(L1, nameB, nameA)
         IN  IF L1.raised THEN L1
             ELSE IF L2.raised THEN L2
             ELSE LedgerRename(L2, tempName, nameB)

\* markDeleted, the index: the lowest i >= 1 with the deleted name unused.
RECURSIVE DeletedIndex(_, _, _)
DeletedIndex(L, basename, i) ==
    IF DeletedName(basename, i) \in DOMAIN L.scores
    THEN DeletedIndex(L, basename, i + 1)
    ELSE i
\* The text of four digits, for the numbers below ten.
Text4(d) == <<"0000", "0001", "0002", "0003", "0004", "0005", "0006", "0007", "0008", "0009">>[d[4] + 1]
\* name[:-9]: the name without its last nine characters. These are '_NNNN.pdb'
\* of a name that ends with four digits and '.pdb', '.pdb.temp' of the
\* temporary name of such a name, and all of 'base_NNNN', which leaves the
\* empty string.
StripNine(name) ==
    CASE name.ext = <<"pdb">> /\ Len(name.digits) = 4 -> name.stem
      [] name.ext = <<"pdb", "temp">> /\ Len(name.digits) = 4 ->
            Append(name.stem, Text4(name.digits))
      [] name.ext = <<>> /\ Len(name.digits) = 4 /\ name.stem = Basename -> <<"">>
\* markDeleted as a bug would have it: the record is erased.
MarkDeletedErases(L, name, basename) == LedgerRemove(L, name)

\* markDeleted as a bug would have it: the index is always 1.
MarkDeletedFirstIndex(L, name, basename) ==
    LET b == IF basename = <<>> THEN StripNine(name) ELSE basename
    IN  LedgerRename(L, name, DeletedName(b, 1))

\* ScoresDict.markDeleted
MarkDeleted(L, name, basename) ==
    LET b == IF basename = <<>> THEN StripNine(name) ELSE basename
    IN  LedgerRename(L, name, DeletedName(b, DeletedIndex(L, b, 1)))

\* ------------------------------------------------------------ directory
\* os.remove(path)
OsRemove(D, name) == Drop(D, name)
\* os.rename(old, new) on POSIX: an existing new is replaced silently.
OsRename(D, old, new) == Put(Drop(D, old), new, D[old])

\* --------------------------------------------- ranking and renumbering
Range(s) == {s[k] : k \in 1..Len(s)}
\* The sequences that hold each element of S once.
Perms(S) == {s \in [1..Cardinality(S) -> S] : Range(s) = S}
\* ScoresDict.sort with the ranking metric, kept to the names in files: the
\* names by ascending total_score. sorted() is stable over the iteration
\* order of a dict, which is arbitrary: equal scores come out in any order.
SortedOrders(sc, files) ==
    {s \in Perms((DOMAIN sc) \cap files) :
        \A a, b \in 1..Len(s) : a < b => sc[s[a]].total_score <= sc[s[b]].total_score}

\* newOrder[numToKeep:] and newOrder[:numToKeep]
SliceFrom(s, n) == IF n >= Len(s) THEN <<>> ELSE SubSeq(s, n + 1, Len(s))
SliceTo(s, n) == IF n >= Len(s) THEN s ELSE SubSeq(s, 1, n)

\* orderAndTrimDecoys, the loop over toDelete: os.remove, then markDeleted.
\* T is [disk, L].
RECURSIVE TrimAll(_, _, _)
TrimAll(T, toDelete, basename) ==
    IF toDelete = <<>> \/ T.L.raised THEN T
    ELSE TrimAll([disk |-> OsRemove(T.disk, Head(toDelete)),
                  L |-> MarkDeleted(T.L, Head(toDelete), basename)],
                 Tail(toDelete), basename)

\* The steps of renameFiles(old, new): the ledger rename, then os.rename.
RenameFilesOps(old, new) ==
    IF old = new THEN <<>>
    ELSE << [op |-> "ledger", old |-> old, new |-> new],
            [op |-> "file", old |-> old, new |-> new] >>

\* swapFiles as a bug would have it: the temporary file is never moved on.
SwapFilesLeavesTemp(nameA, nameB) ==
    IF nameA = nameB THEN <<>>
    ELSE RenameFilesOps(nameA, TempName(nameA)) \o RenameFilesOps(nameB, nameA)

\* The steps of swapFiles(nameA, nameB).
SwapFilesOps(nameA, nameB) ==
    IF nameA = nameB THEN <<>>
    ELSE LET tempName == TempName(nameA)
         IN  RenameFilesOps(nameA, tempName) \o RenameFilesOps(nameB, nameA)
                \o RenameFilesOps(tempName, nameB)

\* 'filename in l' as a bug would have it: a pending holder is never seen.
InListNever(list, filename) == FALSE

\* __reorderDecoys: 'filename in l', the target name is held by a file that
\* still awaits its own rename.
InList(list, filename) == \E j \in 1..Len(list) : list[j] = filename

\* l.index(filename)
IndexOf(list, filename) ==
    CHOOSE j \in 1..Len(list) :
        list[j] = filename /\ \A k \in 1..(j - 1) : list[k] # filename

\* ------------------------------------------------ the constraint evaluator
\* Coordinates are integer triples (Angstrom). A geometry G is what
\* __parseCoordsFromPdb leaves in the filter:
\*   G.residueAtoms : residue key -> the list of its atoms' coordinates
\*   G.proteinAtoms : chain -> (residue code -> the list of its atoms)
\* and residueNs, proteinNs hold the first atom of each list.
Abs(x) == IF x < 0 THEN -x ELSE x
Max(a, b) == IF a >= b THEN a ELSE b
Sq(x) == x * x
\* The backbone coordinate: the first atom listed for the residue.
FirstAtom(atoms) == atoms[1]
ResidueNs(G) == [r \in DOMAIN G.residueAtoms |-> FirstAtom(G.residueAtoms[r])]
ProteinNs(G) ==
    [c \in DOMAIN G.proteinAtoms |->
        [r \in DOMAIN G.proteinAtoms[c] |-> FirstAtom(G.proteinAtoms[c][r])]]

\* math.sqrt((x1-x2)**2+(y1-y2)**2+(z1-z2)**2) <= dist, in exact arithmetic:
\* the root of s is at most dist iff dist >= 0 and s <= dist squared.
WithinDist(p, q, dist) ==
    dist >= 0 /\ Sq(p[1] - q[1]) + Sq(p[2] - q[2]) + Sq(p[3] - q[3]) <= Sq(dist)

\* __checkAtomDistances as a bug would have it: a strict comparison.
CheckAtomDistancesStrict(dist, coordsList1, coordsList2) ==
    \E a \in 1..Len(coordsList1), b \in 1..Len(coordsList2) :
        /\ dist > 0
        /\ Sq(coordsList1[a][1] - coordsList2[b][1])
            + Sq(coordsList1[a][2] - coordsList2[b][2])
            + Sq(coordsList1[a][3] - coordsList2[b][3]) < Sq(dist)

\* __checkAtomDistances: some pair of atoms is within dist.
CheckAtomDistances(dist, coordsList1, coordsList2) ==
    \E a \in 1..Len(coordsList1), b \in 1..Len(coordsList2) :
        WithinDist(coordsList1[a], coordsList2[b], dist)

\* nearDist = max(20.0, dist+10.0)
NearDist(dist) == Max(20, dist + 10)

\* The per-axis box check of the two backbone coordinates.
BackboneNear(p, q, nearDist) ==
    /\ Abs(p[1] - q[1]) <= nearDist
    /\ Abs(p[2] - q[2]) <= nearDist
    /\ Abs(p[3] - q[3]) <= nearDist

\* __testConstraints, one constraint: "KeyError" when the residue or the
\* chain is not in the geometry; else "True" when some residue of the chain
\* passes the box check and then the atom check, "False" when none does (the
\* for ... else over proteinNs[chainID].items(), whose order does not change
\* the outcome).
TestOneConstraint(G, chainID, res, dist) ==
    IF res \notin DOMAIN ResidueNs(G) \/ chainID \notin DOMAIN ProteinNs(G)
    THEN "KeyError"
    ELSE LET nearDist == NearDist(dist)
             resNCoords == ResidueNs(G)[res]
             res1Atoms == G.residueAtoms[res]
         IN  IF \E resCode \in DOMAIN ProteinNs(G)[chainID] :
                  /\ BackboneNear(resNCoords, ProteinNs(G)[chainID][resCode], nearDist)
                  /\ CheckAtomDistances(dist, res1Atoms, G.proteinAtoms[chainID][resCode])
             THEN "True" ELSE "False"

\* The constraints of one chain, in the order they were registered.
RECURSIVE TestChain(_, _, _)
TestChain(G, chainID, cl) ==
    IF cl = <<>> THEN "True"
    ELSE LET r == TestOneConstraint(G, chainID, Head(cl)[1], Head(cl)[2])
         IN  IF r = "True" THEN TestChain(G, chainID, Tail(cl)) ELSE r

\* __testConstraints as a bug would have it: one constraint that holds is
\* enough.
RECURSIVE TestConstraintsAny(_, _, _)
TestConstraintsAny(G, dc, chainOrder) ==
    IF chainOrder = <<>> THEN "False"
    ELSE IF \E k \in 1..Len(dc[Head(chainOrder)]) :
                TestOneConstraint(G, Head(chainOrder), dc[Head(chainOrder)][k][1],
                                  dc[Head(chainOrder)][k][2]) = "True"
         THEN "True"
         ELSE TestConstraintsAny(G, dc, Tail(chainOrder))

\* __testConstraints: dc is self.distConstraints (chain -> list of
\* <<res, dist>>), chainOrder the order in which dc.items() yields the chains.
\* "True", "False" or "KeyError".
RECURSIVE TestConstraints(_, _, _)
TestConstraints(G, dc, chainOrder) ==
    IF chainOrder = <<>> THEN "True"
    ELSE LET r == TestChain(G, Head(chainOrder), dc[Head(chainOrder)])
         IN  IF r = "True" THEN TestConstraints(G, dc, Tail(chainOrder)) ELSE r

\* addDistConstraint over a list of <<res, toChain, dist>>: the constraints
\* grouped by chain, each chain's list in the order of registration.
RECURSIVE AddDistConstraints(_, _)
AddDistConstraints(dc, cs) ==
    IF cs = <<>> THEN dc
    ELSE LET c == Head(cs)
             dc2 == IF c[2] \in DOMAIN dc
                    THEN [dc EXCEPT ![c[2]] = Append(@, <<c[1], c[3]>>)]
                    ELSE Put(dc, c[2], << <<c[1], c[3]>> >>)
         IN  AddDistConstraints(dc2, Tail(cs))

\* ------------------------------------------------------ the filtering pass
\* filename.startswith(basenames) and filename[:-9] in basenames: among the
\* names of this model, a basename followed by '_NNNN.pdb'.
MatchesBasenames(name, basenames) ==
    name.stem \in basenames /\ Len(name.digits) = 4 /\ name.ext = <<"pdb">>

\* The evaluation of one file as a bug would have it: every file passes.
CheckPdbConstraintsAcceptsAll(content, dc, chainOrder) == "True"

\* __checkPdbConstraints: the geometry of the file is parsed and tested.
CheckPdbConstraints(content, dc, chainOrder) ==
    TestConstraints(content.geom, dc, chainOrder)

\* The scoresDict.remove calls of one pass.
RECURSIVE LedgerRemoveAll(_, _)
LedgerRemoveAll(L, names) ==
    IF names = {} THEN L
    ELSE LET n == CHOOSE x \in names : TRUE
         IN  LedgerRemoveAll(LedgerRemove(L, n), names \ {n})

\* parseDecoys as a bug would have it: a rejected file stays in the directory.
ParseDecoysKeepsFile(D, file, dc, basenames) ==
    LET sd == LoadScores(file)
        matching == {n \in DOMAIN D : MatchesBasenames(n, basenames)}
        order == CHOOSE o \in Perms(DOMAIN dc) : TRUE
        bad == {n \in matching : CheckPdbConstraints(D[n], dc, order) # "True"}
    IN  { [disk |-> D, file |-> SaveScores(LedgerRemoveAll(sd, bad)),
           L |-> LedgerRemoveAll(sd, bad),
           returnsFalse |-> FALSE, raised |-> FALSE,
           kept |-> Cardinality(matching \ bad)] }

\* parseDecoys, for a filter whose directory and basenames are set: the
\* outcomes [disk, file, L, returnsFalse, raised, kept]. L: self.scoresDict
\* as the pass leaves it; file: the score file as it leaves it; returnsFalse: the ledger
\* loaded empty and the pass returned False; raised: the load of the score
\* file raised, or the evaluation of a file raised, after any of the failing
\* files had been deleted (os.listdir yields the files in no particular
\* order) and before the score file was saved;
\* kept: len(filesToKeep).
ParseDecoys(D, file, dc, basenames) ==
    LET sd == LoadScores(file)
        matching == {n \in DOMAIN D : MatchesBasenames(n, basenames)}
    IN  IF sd.raised
        THEN { [disk |-> D, file |-> file, L |-> sd, returnsFalse |-> FALSE,
                raised |-> TRUE, kept |-> 0] }
        ELSE IF DOMAIN sd.scores = {}
        THEN { [disk |-> D, file |-> file, L |-> sd, returnsFalse |-> TRUE,
                raised |-> FALSE, kept |-> 0] }
        ELSE UNION { LET res == [n \in matching |-> CheckPdbConstraints(D[n], dc, order)]
                         bad == {n \in matching : res[n] = "False"}
                     IN  IF \E n \in matching : res[n] = "KeyError"
                         THEN { [disk |-> [n \in (DOMAIN D) \ gone |-> D[n]],
                                 file |-> file, L |-> LedgerRemoveAll(sd, gone),
                                 returnsFalse |-> FALSE,
                                 raised |-> TRUE, kept |-> 0] : gone \in SUBSET bad }
                         ELSE { [disk |-> [n \in (DOMAIN D) \ bad |-> D[n]],
                                 file |-> SaveScores(LedgerRemoveAll(sd, bad)),
                                 L |-> LedgerRemoveAll(sd, bad),
                                 returnsFalse |-> FALSE, raised |-> FALSE,
                                 kept |-> Cardinality(matching \ bad)] }
                   : order \in Perms(DOMAIN dc) }

\* ------------------------------------------------- the inputs of the model
\* The constraint of the runs of this model: PHE171B within 10 A of chain T.
RunConstraints == << <<"PHE171B", "T", 10>> >>
\* An artifact whose PHE171B is 5 A from a residue of chain T.
GeomNear ==
    [residueAtoms |-> [r \in {"PHE171B"} |-> << <<0, 0, 0>> >>],
     proteinAtoms |-> [c \in {"T"} |-> [r \in {"LYS89"} |-> << <<3, 4, 0>> >>]]]
\* An artifact whose PHE171B is 30 A from chain T.
GeomFar ==
    [residueAtoms |-> [r \in {"PHE171B"} |-> << <<0, 0, 0>> >>],
     proteinAtoms |-> [c \in {"T"} |-> [r \in {"LYS89"} |-> << <<30, 0, 0>> >>]]]
\* The four dicts as __checkPdbConstraints resets them: all empty.
NoGeometry == [residueAtoms |-> Empty, proteinAtoms |-> Empty]
\* The names a directory holds at first: base_0001.pdb .. and the output of a
\* seeded worker, base_0_0001.pdb.
NamePool ==
    {CanonName(Basename, k) : k \in 1..(MaxN + 1)}
        \cup {[stem |-> <<"base", "0">>, digits |-> Fmt4(1), ext |-> <<"pdb">>]}
\* The values of total_score.
ScoreValues == {1, 2}
\* The values of keepTopDecoys: 0 keeps every decoy.
KeepChoices == {0, 1, 2}
\* The score line a worker writes for the decoy it names n: the description
\* column holds the name without '.pdb'.
WorkerLine(n, score) ==
    [fields |-> [id |-> n, total_score |-> score], token |-> [n EXCEPT !.ext = <<>>]]

\* No orderAndTrimDecoys has been entered.
NoStart ==
    [disk |-> Empty, scores |-> Empty, lines |-> Empty, diskBefore |-> Empty,
     scoresBefore |-> Empty]

\* The evaluator's variables, when the evaluator is not what is looked at.
EvalIdle == geometry = GeomNear /\ evalResult = "none"
\* No call on a ScoresDict is being followed.
CallsIdle == calls = <<>> /\ hist = <<>>
\* No run() is under way.
RunIdle ==
    /\ constraints = RunConstraints /\ numStruct = 0 /\ numFinished = 0
    /\ retcode = 0 /\ batches = 0 /\ workerFailed = FALSE /\ tempFiles = <<>>
    /\ result = "none"
\* No worker pool has been set up.
PoolIdle ==
    /\ numCPUs = 1 /\ procs = <<>> /\ dirExists = TRUE /\ registered = {}
    /\ inputExists = TRUE
\* _generateSupplements is not being followed.
SplitIdle == supps = <<>> /\ structLeft = 0 /\ cpusLeft = 0
\* sort is not being followed: the header is that of the workers' lines.
SortIdle == metrics = <<"total_score">> /\ sortMetric = "none" /\ sortResult = <<>>
\* No _run is polling.
PollIdle == prevCount = -1 /\ reports = <<>>
\* No residue has been registered for parsing.
AddIdle == residuesToParse = Empty
\* The text of a score file is not being followed.
LoadIdle ==
    /\ rawFile = [header |-> <<>>, body |-> <<>>] /\ header = <<>>
    /\ suffix = "sc" /\ scoreType = "None" /\ rankingMetric = "None"
\* The variables that only some of the specifications follow.
\* No call has been made on the OrderedDict.
NoCall == [op |-> "none", error |-> "none", key |-> "none", value |-> 0]
\* parseDecoys has neither returned nor raised.
NoResult == [kind |-> "none", value |-> 0, error |-> "none"]
\* No parseDecoys loop is being followed.
PassIdle ==
    /\ fileList = <<>> /\ fileIdx = 0 /\ parsed = NoGeometry /\ filesToKeep = <<>>
    /\ deleted = Empty /\ passResult = NoResult
\* No OrderedDict is being followed.
OdIdle == odDict = Empty /\ odKeys = <<>> /\ odLast = NoCall
MoreIdle == PassIdle /\ OdIdle
AuxIdle == PoolIdle /\ SplitIdle /\ SortIdle /\ LoadIdle /\ AddIdle /\ PollIdle /\ MoreIdle

\* --------------------------------------- a directory is filtered and ranked
InitRenum ==
    /\ \E S \in SUBSET NamePool :
         /\ Cardinality(S) <= MaxN
         /\ \E sc \in [S -> ScoreValues], Bad \in SUBSET S :
              /\ Cardinality(Bad) <= MaxBad
              /\ disk = [n \in S |-> [id |-> n,
                                      geom |-> IF n \in Bad THEN GeomFar ELSE GeomNear]]
              /\ scoreFile = {WorkerLine(n, sc[n]) : n \in S}
    /\ scores = Empty /\ lines = Empty
    /\ newOrder = <<>> /\ l = <<>> /\ idx = 0 /\ ops = <<>>
    /\ pc = "filterDir"
    /\ start = NoStart
    /\ keepTopDecoys \in KeepChoices
    /\ distConstraints = AddDistConstraints(Empty, RunConstraints)
    /\ EvalIdle /\ CallsIdle /\ RunIdle /\ AuxIdle

\* PdbFilter.parseDecoys over the directory (a run with constraints).
FilterDirectory ==
    /\ pc = "filterDir"
    /\ \E out \in ParseDecoys(disk, scoreFile, distConstraints, {Basename}) :
         /\ disk' = out.disk
         /\ scoreFile' = out.file
         /\ scores' = out.L.scores
         /\ lines' = out.L.lines
         /\ pc' = IF out.raised THEN "raised" ELSE "rename"
    /\ UNCHANGED <<newOrder, l, idx, ops, start, keepTopDecoys,
                   distConstraints, restVars>>

\* A run without constraints: no filtering pass.
SkipFilter ==
    /\ pc = "filterDir"
    /\ pc' = "rename"
    /\ UNCHANGED <<disk, scoreFile, scores, lines, newOrder, l, idx, ops, start,
                   keepTopDecoys, distConstraints, restVars>>

\* _renameDecoys and orderAndTrimDecoys up to the call of __reorderDecoys: the
\* ledger is loaded, the decoys are ranked, those beyond keepTopDecoys are
\* deleted and marked deleted.
OrderAndTrimDecoys ==
    /\ pc = "rename"
    /\ LET sd == LoadScores(scoreFile)
       IN  IF sd.raised
           THEN /\ pc' = "raised"
                /\ UNCHANGED <<disk, scores, lines, newOrder, l, idx, ops, start>>
           ELSE IF DOMAIN sd.scores = {}
           THEN /\ pc' = "renamed"
                /\ UNCHANGED <<disk, scores, lines, newOrder, l, idx, ops, start>>
           ELSE \E order \in SortedOrders(sd.scores, DOMAIN disk) :
                  LET toDelete == IF keepTopDecoys > 0
                                  THEN SliceFrom(order, keepTopDecoys) ELSE <<>>
                      kept == IF keepTopDecoys > 0
                              THEN SliceTo(order, keepTopDecoys) ELSE order
                      T == TrimAll([disk |-> disk, L |-> sd], toDelete, Basename)
                  IN  /\ disk' = T.disk
                      /\ scores' = T.L.scores
                      /\ lines' = T.L.lines
                      /\ newOrder' = kept
                      /\ l' = kept
                      /\ idx' = 0
                      /\ ops' = <<>>
                      /\ start' = [disk |-> T.disk, scores |-> T.L.scores,
                                   lines |-> T.L.lines, diskBefore |-> disk,
                                   scoresBefore |-> sd.scores]
                      /\ pc' = IF T.L.raised THEN "raised" ELSE "reorder"
    /\ UNCHANGED <<scoreFile, keepTopDecoys, distConstraints, restVars>>

\* 'l[l.index(filename)] = oldFilename' as a bug would have it: the list is
\* left as it was.
ListAfterSwapStale(list, filename, oldFilename) == list

\* l[l.index(filename)] = oldFilename
ListAfterSwap(list, filename, oldFilename) ==
    [list EXCEPT ![IndexOf(list, filename)] = oldFilename]

\* __reorderDecoys, one iteration of the loop up to its renameFiles or
\* swapFiles call, whose steps are left in ops; the call is logged in calls.
ReorderIter ==
    /\ pc = "reorder" /\ ops = <<>> /\ idx < Len(l)
    /\ LET oldFilename == l[idx + 1]
           l1 == [l EXCEPT ![idx + 1] = PyFalse]
           filename == CanonName(Basename, idx + 1)
       IN  /\ idx' = idx + 1
           /\ IF oldFilename = filename
              THEN l' = l1 /\ ops' = <<>> /\ calls' = calls
              ELSE IF InList(l1, filename)
              THEN /\ l' = ListAfterSwap(l1, filename, oldFilename)
                   /\ ops' = SwapFilesOps(oldFilename, filename)
                   /\ calls' = Append(calls, [op |-> "swapFiles", a |-> oldFilename,
                                              b |-> filename])
              ELSE /\ l' = l1
                   /\ ops' = RenameFilesOps(oldFilename, filename)
                   /\ calls' = Append(calls, [op |-> "renameFiles", a |-> oldFilename,
                                              b |-> filename])
    /\ UNCHANGED <<disk, scoreFile, scores, lines, newOrder, pc, start,
                   keepTopDecoys, distConstraints, evalVars, hist, runVars, auxVars>>

\* One step of renameFiles: self.rename(old, new).
LedgerStep ==
    /\ pc = "reorder" /\ ops # <<>> /\ Head(ops).op = "ledger"
    /\ LET L == LedgerRename([scores |-> scores, lines |-> lines, raised |-> FALSE],
                             Head(ops).old, Head(ops).new)
       IN  /\ scores' = L.scores
           /\ lines' = L.lines
           /\ pc' = IF L.raised THEN "raised" ELSE pc
    /\ ops' = Tail(ops)
    /\ UNCHANGED <<disk, scoreFile, newOrder, l, idx, start, keepTopDecoys,
                   distConstraints, restVars>>

\* The other step of renameFiles: os.rename(oldPath, newPath), which raises
\* OSError when there is no file old.
FileStep ==
    /\ pc = "reorder" /\ ops # <<>> /\ Head(ops).op = "file"
    /\ IF Head(ops).old \in DOMAIN disk
       THEN disk' = OsRename(disk, Head(ops).old, Head(ops).new) /\ pc' = pc
       ELSE disk' = disk /\ pc' = "raised"
    /\ ops' = Tail(ops)
    /\ UNCHANGED <<scoreFile, scores, lines, newOrder, l, idx, start, keepTopDecoys,
                   distConstraints, restVars>>

\* __reorderDecoys, after the loop: self.saveScores().
ReorderSave ==
    /\ pc = "reorder" /\ ops = <<>> /\ idx = Len(l)
    /\ scoreFile' = SaveScores([scores |-> scores, lines |-> lines, raised |-> FALSE])
    /\ pc' = "renamed"
    /\ UNCHANGED <<disk, scores, lines, newOrder, l, idx, ops, start, keepTopDecoys,
                   distConstraints, restVars>>

NextRenum ==
    \/ FilterDirectory
    \/ SkipFilter
    \/ OrderAndTrimDecoys
    \/ ReorderIter
    \/ LedgerStep
    \/ FileStep
    \/ ReorderSave

SpecRenum == InitRenum /\ [][NextRenum]_vars

\* -------------------------------------------------- claims on renumbering
\* The canonical names of the ranks 1..n.
CanonNames(n) == {CanonName(Basename, i) : i \in 1..n}
\* A key that markDeleted made: '<base>_deleted_NNNN.pdb'.
IsDeletedName(name) == Len(name.stem) > 0 /\ name.stem[Len(name.stem)] = "deleted"
\* The keys of the ledger: of the ScoresDict while __reorderDecoys works on
\* it, of the score file otherwise.
LedgerKeys ==
    IF pc = "reorder" THEN DOMAIN scores ELSE {KeyOfLine(ln) : ln \in scoreFile}
\* No renameFiles call is half done.
AtCallBoundary == pc # "raised" /\ (ops = <<>> \/ Head(ops).op = "ledger")

\* C1: renumbering is loss-free. When __reorderDecoys has returned, for the
\* list newOrder of the N names it was given, the directory holds exactly the
\* files base_0001 .. base_N, the content and the ledger record (metrics and
\* score line) that were ranked i are under the canonical name of i, every
\* content the directory held is under exactly one name, and no '.temp' name
\* is left in the directory, the ledger or the saved score file.
C1_RenumberingLossFree ==
    pc = "renamed" /\ DOMAIN start.scores # {} =>
        LET N == Len(newOrder)
        IN  /\ DOMAIN disk = CanonNames(N)
            /\ \A i \in 1..N :
                 LET c == CanonName(Basename, i)
                 IN  /\ disk[c] = start.disk[newOrder[i]]
                     /\ c \in DOMAIN scores /\ c \in DOMAIN lines
                     /\ scores[c] = start.scores[newOrder[i]]
                     /\ lines[c].fields = start.lines[newOrder[i]].fields
                     /\ KeyOfLine(lines[c]) = c
            /\ \A n \in DOMAIN start.disk :
                 Cardinality({m \in DOMAIN disk : disk[m] = start.disk[n]}) = 1
            /\ \A n \in (DOMAIN disk) \cup (DOMAIN scores) \cup (DOMAIN lines) :
                 ~IsTemp(n)
            /\ \A ln \in scoreFile : ~IsTemp(ln.token)
            /\ {KeyOfLine(ln) : ln \in scoreFile} = DOMAIN scores

\* The renumbering of the ranks (base_0002, base_0003, base_0001) has returned.
C1_Witness ==
    /\ pc = "renamed"
    /\ newOrder = << CanonName(Basename, 2), CanonName(Basename, 3),
                     CanonName(Basename, 1) >>

\* C2: in every state of a renumbering, the step about to be taken renames
\* onto a name that nothing holds (no file for os.rename, no record for the
\* ledger rename), no step has raised, and the directory still holds every
\* content, the ledger every metrics record and every score line, that it held
\* when the renumbering began, each under a name of its own.
C2_NoRenameOntoHeldName ==
    pc \in {"reorder", "renamed", "raised"} /\ DOMAIN start.scores # {} =>
        /\ pc # "raised"
        /\ ops # <<>> /\ Head(ops).op = "file" => Head(ops).new \notin DOMAIN disk
        /\ ops # <<>> /\ Head(ops).op = "ledger" =>
             Head(ops).new \notin (DOMAIN scores) \cup (DOMAIN lines)
        /\ Cardinality(DOMAIN disk) = Cardinality(DOMAIN start.disk)
        /\ {disk[n] : n \in DOMAIN disk} = {start.disk[n] : n \in DOMAIN start.disk}
        /\ Cardinality(DOMAIN scores) = Cardinality(DOMAIN start.scores)
        /\ {scores[n] : n \in DOMAIN scores} = {start.scores[n] : n \in DOMAIN start.scores}
        /\ Cardinality(DOMAIN lines) = Cardinality(DOMAIN start.lines)
        /\ {lines[n].fields : n \in DOMAIN lines}
             = {start.lines[n].fields : n \in DOMAIN start.lines}

\* A swap is under way: a file is under its temporary name while the holder of
\* the canonical name is about to be moved.
C2_Witness ==
    /\ pc = "reorder"
    /\ \E n \in DOMAIN disk : IsTemp(n)
    /\ ops # <<>> /\ Head(ops).op = "file" /\ Head(ops).old \in CanonNames(MaxN + 1)

\* C3 as stated: between the calls of the mutating operations, the keys of the
\* ledger are the names of the files of the directory.
C3_LedgerKeysEqualFiles ==
    AtCallBoundary => LedgerKeys = DOMAIN disk

\* C3 as amended: between the calls of the mutating operations, the keys of
\* the ledger that markDeleted did not make are the names of the files of the
\* directory, and every key that markDeleted made has no file.
C3_LiveLedgerKeysEqualFiles ==
    AtCallBoundary =>
        /\ {k \in LedgerKeys : ~IsDeletedName(k)} = DOMAIN disk
        /\ \A k \in LedgerKeys : IsDeletedName(k) => k \notin DOMAIN disk

\* A filtering pass has rejected a decoy, a decoy was trimmed and marked
\* deleted, and the survivors have been renumbered.
C3_Witness ==
    /\ pc = "renamed"
    /\ \E k \in LedgerKeys : IsDeletedName(k)
    /\ \E n \in DOMAIN start.disk : n \notin CanonNames(MaxN + 1)
    /\ Cardinality(DOMAIN disk) >= 1

\* ------------------------------------------- calls on a loaded ScoresDict
\* The largest number of calls followed on one ScoresDict.
MaxCalls == 2
\* The names the calls are made with.
LedgerPool == {CanonName(Basename, 1), CanonName(Basename, 2), CanonName(Basename, 3)}
\* A name that does not end with '.pdb': 'base_0001'.
BareName == [CanonName(Basename, 1) EXCEPT !.ext = <<>>]
\* The names the calls are made with.
CallNames == LedgerPool \cup {BareName}
\* A name that ends with '.temp', the temporary name of a swap of the first
\* name: 'base_0001.pdb.temp'.
HeldTempName == TempName(CanonName(Basename, 1))
\* The ScoresDict as a ledger value.
CurrentLedger == [scores |-> scores, lines |-> lines, raised |-> FALSE]

InitLedger ==
    /\ \E S \in SUBSET LedgerPool :
         /\ scoreFile = {WorkerLine(n, 1) : n \in S}
         /\ \E L \in {LoadScores(scoreFile)}
                    \cup {LedgerRename(LoadScores(scoreFile), n, HeldTempName) : n \in S} :
                /\ scores = L.scores
                /\ lines = L.lines
    /\ disk = Empty
    /\ newOrder = <<>> /\ l = <<>> /\ idx = 0 /\ ops = <<>>
    /\ header = HeaderLine
    /\ rawFile = [header |-> <<>>, body |-> <<>>]
    /\ suffix = "sc" /\ scoreType = "None" /\ rankingMetric = "None"
    /\ pc = "ledger"
    /\ start = NoStart
    /\ keepTopDecoys = 0
    /\ distConstraints = Empty
    /\ EvalIdle /\ CallsIdle /\ RunIdle /\ PoolIdle /\ SplitIdle /\ SortIdle /\ AddIdle /\ PollIdle /\ MoreIdle

\* The call leaves the ledger L; it is logged with the ledger it found.
LedgerCall(call, L) ==
    /\ pc = "ledger" /\ Len(calls) < MaxCalls
    /\ scores' = L.scores
    /\ lines' = L.lines
    /\ pc' = IF L.raised THEN "raised" ELSE pc
    /\ calls' = Append(calls, call)
    /\ hist' = Append(hist, [scores |-> scores, lines |-> lines])
    /\ UNCHANGED <<disk, scoreFile, newOrder, l, idx, ops, start, keepTopDecoys,
                   distConstraints, evalVars, runVars, auxVars>>

CallRemove ==
    \E n \in CallNames :
        LedgerCall([op |-> "remove", a |-> n, b |-> n], LedgerRemove(CurrentLedger, n))
CallRename ==
    \E old, new \in CallNames :
        LedgerCall([op |-> "rename", a |-> old, b |-> new],
                   LedgerRename(CurrentLedger, old, new))
CallSwap ==
    \E nameA, nameB \in CallNames :
        LedgerCall([op |-> "swap", a |-> nameA, b |-> nameB],
                   LedgerSwap(CurrentLedger, nameA, nameB))
CallMarkDeleted ==
    \E n \in CallNames :
        LedgerCall([op |-> "markDeleted", a |-> n, b |-> n],
                   MarkDeleted(CurrentLedger, n, <<>>))

\* sd.saveScores(), after the calls or after the caller caught the KeyError of
\* one: rawFile is the text written.
CallSave ==
    /\ pc \in {"ledger", "raised"}
    /\ rawFile' = SaveText(CurrentLedger, header)
    /\ pc' = IF pc = "raised" THEN "savedRaised" ELSE "saved"
    /\ UNCHANGED <<disk, scoreFile, scores, lines, newOrder, l, idx, ops, start,
                   keepTopDecoys, distConstraints, evalVars, callVars, runVars,
                   poolVars, splitVars, sortVars, header, suffix, scoreType,
                   rankingMetric, addVars, pollVars, moreVars>>

NextLedger == CallRemove \/ CallRename \/ CallSwap \/ CallMarkDeleted \/ CallSave

SpecLedger == InitLedger /\ [][NextLedger]_vars

\* The ledger after the call k.
LedgerAfter(k) ==
    IF k = Len(calls) THEN [scores |-> scores, lines |-> lines] ELSE hist[k + 1]

\* The calls k and k + 1 are the same swap(a, b), a and b both keys of the
\* ledger the first of them found.
SwappedTwice(k) ==
    /\ calls[k].op = "swap" /\ calls[k + 1] = calls[k]
    /\ calls[k].a \in DOMAIN hist[k].scores
    /\ calls[k].b \in DOMAIN hist[k].scores
\* The calls k and k + 1 raised nothing and left every key with the metrics
\* record and the score columns it had, and every score line either as it was
\* or ending with the name of its key. (No call follows one that raised, so
\* pc = "raised" tells of the last call.)
RestoredAfter(k) ==
    /\ (k + 1 = Len(calls) => pc # "raised")
    /\ LedgerAfter(k + 1).scores = hist[k].scores
    /\ DOMAIN LedgerAfter(k + 1).lines = DOMAIN hist[k].lines
    /\ \A n \in DOMAIN hist[k].lines :
         /\ LedgerAfter(k + 1).lines[n].fields = hist[k].lines[n].fields
         /\ \/ LedgerAfter(k + 1).lines[n] = hist[k].lines[n]
            \/ LedgerAfter(k + 1).lines[n].token = n

\* C4 as stated: swap(a, b) followed by swap(a, b), a and b both keys of the
\* ledger, restores the mapping of every key of any ledger.
C4_SwapTwiceRestores ==
    \A k \in 1..(Len(calls) - 1) : SwappedTwice(k) => RestoredAfter(k)

\* C4 amended: swap(a, b) followed by swap(a, b), a and b both keys of a
\* ledger that has no key a + '.temp', raises nothing and restores the
\* mapping of every key.
C4_SwapTwiceRestoresNoTemp ==
    \A k \in 1..(Len(calls) - 1) :
        SwappedTwice(k) /\ TempName(calls[k].a) \notin DOMAIN hist[k].scores
        => RestoredAfter(k)

\* Two different keys of a ledger of three records have been swapped twice.
C4_Witness ==
    /\ Len(calls) >= 2
    /\ \E k \in 1..(Len(calls) - 1) :
        /\ calls[k].op = "swap" /\ calls[k + 1] = calls[k]
        /\ calls[k].a # calls[k].b
        /\ {calls[k].a, calls[k].b} \subseteq DOMAIN hist[k].scores
        /\ TempName(calls[k].a) \notin DOMAIN hist[k].scores
        /\ Cardinality(DOMAIN hist[k].scores) = 3
    /\ pc = "ledger"

\* ------------------------------------------ one artifact is evaluated
\* The largest number of constraints registered.
MaxConstraints == 2
\* The distances of the constraints (Angstrom).
EvalDists == {5, 10}
\* The constraints that can be registered: ARG10B or GLY20B, near chain T or U.
ConstraintChoices ==
    {<<res, chain, d>> : res \in {"ARG10B", "GLY20B"}, chain \in {"T", "U"}, d \in EvalDists}
\* The lists of at most n constraints.
ConstraintLists(n) == UNION {[1..k -> ConstraintChoices] : k \in 1..n}
\* LYS89 of chain T: its backbone atom and a second atom.
LysChoices ==
    { << <<3, 4, 0>>, <<3, 4, 3>> >>,
      << <<6, 8, 0>>, <<3, 4, 0>> >>,
      << <<26, 0, 0>>, <<18, 0, 0>> >>,
      << <<0, 21, 0>>, <<0, 26, 0>> >> }
\* The geometries: ARG10B has its backbone atom at the origin and a second
\* atom; GLY20B is one atom; chain T is LYS89, with or without ASP90; chain U
\* is one residue of one atom.
Geometries ==
    { [residueAtoms |->
          [r \in {"ARG10B", "GLY20B"} |->
              IF r = "ARG10B" THEN << <<0, 0, 0>>, tip >> ELSE << gly >>],
       proteinAtoms |->
          [c \in {"T", "U"} |->
              IF c = "T"
              THEN IF asp
                   THEN [r \in {"LYS89", "ASP90"} |->
                            IF r = "LYS89" THEN lys ELSE << <<13, 0, 0>> >>]
                   ELSE [r \in {"LYS89"} |-> lys]
              ELSE [r \in {"SER5"} |-> << u >>]]]
      : tip \in {<<0, 0, 0>>, <<8, 0, 0>>},
        gly \in {<<0, 0, 0>>, <<40, 0, 0>>},
        lys \in LysChoices,
        asp \in BOOLEAN,
        u \in {<<0, 0, 3>>, <<0, 0, 50>>} }

InitEval ==
    /\ geometry \in Geometries
    /\ \E cs \in ConstraintLists(MaxConstraints) :
         /\ constraints = cs
         /\ distConstraints = AddDistConstraints(Empty, cs)
    /\ evalResult = "none"
    /\ pc = "eval"
    /\ disk = Empty /\ scoreFile = {} /\ scores = Empty /\ lines = Empty
    /\ newOrder = <<>> /\ l = <<>> /\ idx = 0 /\ ops = <<>>
    /\ start = NoStart
    /\ keepTopDecoys = 0
    /\ CallsIdle
    /\ numStruct = 0 /\ numFinished = 0 /\ retcode = 0 /\ batches = 0
    /\ workerFailed = FALSE /\ tempFiles = <<>> /\ result = "none"
    /\ AuxIdle

\* __testConstraints over the parsed geometry; the chains of distConstraints
\* come in the order the dict yields them.
Evaluate ==
    /\ pc = "eval"
    /\ \E chainOrder \in Perms(DOMAIN distConstraints) :
         evalResult' = TestConstraints(geometry, distConstraints, chainOrder)
    /\ pc' = "evaluated"
    /\ UNCHANGED <<disk, scoreFile, scores, lines, newOrder, l, idx, ops, start,
                   keepTopDecoys, distConstraints, geometry, callVars, runVars, auxVars>>

NextEval == Evaluate

SpecEval == InitEval /\ [][NextEval]_vars

\* Some atom of the residue is within dist of some atom of the chain: the
\* constraint as it is defined, with no box check.
HasAtomPair(G, c) ==
    /\ c[1] \in DOMAIN G.residueAtoms
    /\ c[2] \in DOMAIN G.proteinAtoms
    /\ \E r \in DOMAIN G.proteinAtoms[c[2]] :
         \E a \in 1..Len(G.residueAtoms[c[1]]), b \in 1..Len(G.proteinAtoms[c[2]][r]) :
            WithinDist(G.residueAtoms[c[1]][a], G.proteinAtoms[c[2]][r][b], c[3])

\* C5: an artifact that has, for every registered constraint, an atom of the
\* residue within the distance of an atom of the target chain is accepted.
C5_SatisfyingArtifactAccepted ==
    pc = "evaluated" /\ (\A k \in 1..Len(constraints) : HasAtomPair(geometry, constraints[k]))
        => evalResult = "True"

\* C6: an artifact is accepted only if every registered constraint, of every
\* target chain, has an atom pair within its distance; an artifact with a
\* constraint that has none is rejected, whatever the other constraints and
\* the order of registration.
C6_AllConstraintsMustHold ==
    pc = "evaluated" =>
        /\ evalResult = "True" =>
             \A k \in 1..Len(constraints) : HasAtomPair(geometry, constraints[k])
        /\ (\E k \in 1..Len(constraints) : ~HasAtomPair(geometry, constraints[k]))
             => evalResult = "False"

\* Two constraints were registered, the first holds, the second does not, and
\* the artifact was rejected.
C6_Witness ==
    /\ pc = "evaluated"
    /\ Len(constraints) = 2
    /\ HasAtomPair(geometry, constraints[1])
    /\ ~HasAtomPair(geometry, constraints[2])
    /\ constraints[1][2] # constraints[2][2]
    /\ evalResult = "False"

\* C7: with one constraint on ARG10B and chain T, and LYS89 the only residue
\* of chain T, the artifact is accepted exactly when the threshold is at least
\* the distance of the closest atoms of the two residues.
C7_ThresholdInclusive ==
    /\ pc = "evaluated"
    /\ Len(constraints) = 1
    /\ constraints[1][1] = "ARG10B" /\ constraints[1][2] = "T"
    /\ DOMAIN geometry.proteinAtoms["T"] = {"LYS89"}
    => (evalResult = "True" <=> HasAtomPair(geometry, constraints[1]))

\* ------------------------------------------------- FilterPdbs.run, end to end
\* The run is that of Docker(FilterPdbs, SeedInputPdbs, BaseClass): run of
\* FilterPdbs, _initialFileSetup, _generateSupplements and
\* _getOutputBasenames of SeedInputPdbs, the rest of BaseClass.
\*
\* The largest numStruct, the most worker batches of one run and the largest
\* numCPUs that are followed.
MaxStruct == 2
MaxBatches == 2
MaxCPUs == 2

\* '%i' % i for a worker index.
CpuTag(i) == <<"0", "1", "2", "3", "4">>[i + 1]

\* SeedInputPdbs._getOutputBasenames: [name + '_%i' % i for i in
\* range(numCPUs)] when numCPUs > 1, [name] otherwise.
OutputBasenames(n) ==
    IF n > 1 THEN [i \in 1..n |-> Append(Basename, CpuTag(i - 1))]
    ELSE <<Basename>>

\* name + '.pdb': the seeded copy of the input that one worker reads.
SeedName(basename) == [stem |-> basename, digits |-> <<>>, ext |-> <<"pdb">>]

\* BaseClass._initialFileSetup's outPath: '<outputName>.pdb', the cleaned
\* copy of the input.
CleanPdbName == [stem |-> Basename, digits |-> <<>>, ext |-> <<"pdb">>]

\* The paths SeedInputPdbs._initialFileSetup writes and appends to
\* _tempFiles, in order: the cleaned copy, one seeded copy per basename, and
\* the cleaned copy a second time (registered only, not written again).
SetupPaths(n) ==
    <<CleanPdbName>> \o [i \in 1..Len(OutputBasenames(n)) |-> SeedName(OutputBasenames(n)[i])]
        \o <<CleanPdbName>>

\* round(a / float(b)) of Python 2 for a >= 0 and b >= 1: halves round away
\* from zero.
Round(a, b) == (2 * a + b) \div (2 * b)

\* 'numCPUs -= 1' as a bug would have it: the slot is not taken.
NextSlotsSame(slots) == slots

\* 'numCPUs -= 1' of _generateSupplements.
NextSlots(slots) == slots - 1

\* SeedInputPdbs._generateSupplements, the loop from its k-th basename on:
\* the '-nstruct' of each worker.
RECURSIVE SupplementsFrom(_, _, _)
SupplementsFrom(structLeftNow, cpusLeftNow, names) ==
    IF names = 0 THEN <<>>
    ELSE LET num == Round(structLeftNow, cpusLeftNow)
         IN  <<num>> \o SupplementsFrom(structLeftNow - num, NextSlots(cpusLeftNow),
                                        names - 1)

\* SeedInputPdbs._generateSupplements: the '-nstruct' of each worker.
GenerateSupplements(nstruct, ncpus) ==
    SupplementsFrom(nstruct, ncpus, Len(OutputBasenames(ncpus)))

\* The decoys the worker i (from 1) is asked for: <basename_i>_0001.pdb ..
WorkerNames(nstruct, ncpus, i) ==
    {CanonName(OutputBasenames(ncpus)[i], k) : k \in 1..GenerateSupplements(nstruct, ncpus)[i]}

\* The elements of a list.
Elems(seq) == {seq[i] : i \in 1..Len(seq)}

\* list.remove(x): the list without the first x.
RECURSIVE RemoveFirst(_, _)
RemoveFirst(seq, x) ==
    IF seq = <<>> THEN <<>>
    ELSE IF Head(seq) = x THEN Tail(seq)
    ELSE <<Head(seq)>> \o RemoveFirst(Tail(seq), x)

\* BaseClass._cleanUp as a bug would have it: nothing is deleted.
CleanUpNothing(D, tf) == [disk |-> D, tempFiles |-> tf]

\* The loop of BaseClass._cleanUp over the copy todo of _tempFiles.
RECURSIVE CleanUpFrom(_, _, _)
CleanUpFrom(D, tf, todo) ==
    IF todo = <<>> THEN [disk |-> D, tempFiles |-> tf]
    ELSE IF Head(todo) \in DOMAIN D
         THEN CleanUpFrom(Drop(D, Head(todo)), RemoveFirst(tf, Head(todo)), Tail(todo))
         ELSE CleanUpFrom(D, tf, Tail(todo))

\* BaseClass._cleanUp: every temporary file that exists is removed and
\* taken off the list once. The result is [disk, tempFiles].
CleanUp(D, tf) == CleanUpFrom(D, tf, tf)

\* The loop test as a bug would have it: one batch too many.
LoopContinuesAtTarget(finished, numToMake) == finished <= numToMake

\* The loop test as a design with a cap would have it: one batch at most.
LoopContinuesCapped(finished, numToMake) == finished < numToMake /\ batches < 1

\* 'while numFinished < numToMake' of FilterPdbs.run.
LoopContinues(finished, numToMake) == finished < numToMake

\* _run's wait as a bug would have it: the wait is over as soon as a worker
\* has exited with a nonzero code, whatever the others are doing.
AllExitedOrOneFailed(P) ==
    \/ \A i \in DOMAIN P : P[i] # "running"
    \/ \E i \in DOMAIN P : P[i] = "failed"

\* _run's wait as a bug would have it: it does not wait.
AllExitedNoWait(P) == TRUE

\* _run's wait, 'for p in procs: p.wait()' or 'while None in (p.poll() for p
\* in procs)': over when no worker is running.
AllExited(P) == \A i \in DOMAIN P : P[i] # "running"

\* 'if any(p.returncode for p in procs): retcode = 1'
BatchRetcode(P) == IF \E i \in DOMAIN P : P[i] = "failed" THEN 1 ELSE 0

\* What run() returns for a retcode.
ReturnCode(code) == IF code = 0 THEN "0" ELSE "1"

\* _preRunCheck as a bug would have it: the input is not looked at.
PreRunCheckSkipped(isFile) == TRUE

\* BaseClass._preRunCheck: os.path.isfile(self.inputPdb).
PreRunCheck(isFile) == isFile

\* The content of a copy of the input.
InputCopy(name) == [id |-> name, geom |-> GeomNear]

InitRun ==
    /\ disk = Empty /\ scoreFile = {}
    /\ scores = Empty /\ lines = Empty
    /\ newOrder = <<>> /\ l = <<>> /\ idx = 0 /\ ops = <<>>
    /\ start = NoStart
    /\ keepTopDecoys \in KeepChoices
    /\ distConstraints = Empty
    /\ constraints \in {<<>>, RunConstraints}
    /\ numStruct \in 1..MaxStruct
    /\ numCPUs \in 1..MaxCPUs
    /\ numFinished = 0 /\ retcode = 0 /\ batches = 0 /\ workerFailed = FALSE
    /\ tempFiles = <<>>
    /\ procs = <<>>
    /\ dirExists \in BOOLEAN
    /\ registered = {}
    /\ inputExists \in BOOLEAN
    /\ result = "none"
    /\ pc = "start"
    /\ EvalIdle /\ CallsIdle /\ SplitIdle /\ SortIdle /\ LoadIdle /\ AddIdle /\ PollIdle /\ MoreIdle

\* 'return 3' as a bug would have it: the code is noted and run() goes on to
\* what follows the try block.
RunStartNoInputFallsThrough ==
    /\ pc = "start"
    /\ ~PreRunCheck(inputExists)
    /\ disk' = CleanUp(disk, tempFiles).disk
    /\ tempFiles' = CleanUp(disk, tempFiles).tempFiles
    /\ result' = "3"
    /\ pc' = "rename"
    /\ UNCHANGED <<scoreFile, scores, lines, newOrder, l, idx, ops, start, keepTopDecoys,
                   distConstraints, evalVars, callVars, constraints, numStruct,
                   numFinished, retcode, batches, workerFailed, auxVars>>

\* run() with no input file: _preRunCheck fails, 'return 3' goes through the
\* finally clause (_cleanUp) and nothing after the try is executed.
RunStartNoInput ==
    /\ pc = "start"
    /\ ~PreRunCheck(inputExists)
    /\ disk' = CleanUp(disk, tempFiles).disk
    /\ tempFiles' = CleanUp(disk, tempFiles).tempFiles
    /\ result' = "3"
    /\ pc' = "returned"
    /\ UNCHANGED <<scoreFile, scores, lines, newOrder, l, idx, ops, start, keepTopDecoys,
                   distConstraints, evalVars, callVars, constraints, numStruct,
                   numFinished, retcode, batches, workerFailed, auxVars>>

\* run() up to the first batch: the input is there, the directory is made,
\* the cleaned copy and the seeded copies are written and registered, and
\* with constraints the filter is set up.
RunStart ==
    /\ pc = "start"
    /\ PreRunCheck(inputExists)
    /\ dirExists' = TRUE
    /\ registered' = registered \cup Elems(SetupPaths(numCPUs))
    /\ disk' = [n \in (DOMAIN disk) \cup Elems(SetupPaths(numCPUs)) |->
                   IF n \in Elems(SetupPaths(numCPUs)) THEN InputCopy(n) ELSE disk[n]]
    /\ tempFiles' = tempFiles \o SetupPaths(numCPUs)
    /\ IF constraints = <<>>
       THEN /\ pc' = "batch"
            /\ UNCHANGED <<distConstraints, numFinished>>
       ELSE /\ distConstraints' = AddDistConstraints(Empty, constraints)
            /\ numFinished' = 0
            /\ pc' = "loopTest"
    /\ UNCHANGED <<scoreFile, scores, lines, newOrder, l, idx, ops, start, keepTopDecoys,
                   evalVars, callVars, constraints, numStruct, retcode, batches,
                   workerFailed, result, numCPUs, procs, inputExists, splitVars, sortVars, loadVars, addVars, pollVars, moreVars>>

\* _initialFileSetup raises while it writes its k-th path (the input cannot
\* be read, the directory cannot be written): the paths before it are
\* written and registered, the k-th may be left behind unregistered, and the
\* exception leaves run() through the finally clause.
SetupRaises ==
    /\ pc = "start"
    /\ PreRunCheck(inputExists)
    /\ \E k \in 1..(Len(SetupPaths(numCPUs)) - 1), leftBehind \in BOOLEAN :
         LET done == SubSeq(SetupPaths(numCPUs), 1, k - 1)
             written == Elems(done) \cup (IF leftBehind THEN {SetupPaths(numCPUs)[k]} ELSE {})
             D == [n \in (DOMAIN disk) \cup written |->
                      IF n \in written THEN InputCopy(n) ELSE disk[n]]
         IN  /\ disk' = CleanUp(D, tempFiles \o done).disk
             /\ tempFiles' = CleanUp(D, tempFiles \o done).tempFiles
             /\ registered' = registered \cup Elems(done)
    /\ dirExists' = TRUE
    /\ result' = "exception"
    /\ pc' = "raised"
    /\ UNCHANGED <<scoreFile, scores, lines, newOrder, l, idx, ops, start, keepTopDecoys,
                   distConstraints, evalVars, callVars, constraints, numStruct,
                   numFinished, retcode, batches, workerFailed, numCPUs, procs,
                   inputExists, splitVars, sortVars, loadVars, addVars, pollVars, moreVars>>

\* The test of the retry loop.
LoopTest ==
    /\ pc = "loopTest"
    /\ IF LoopContinues(numFinished, numStruct)
       THEN batches < MaxBatches /\ pc' = "batch"
       ELSE pc' = "postRun"
    /\ UNCHANGED <<disk, scoreFile, scores, lines, newOrder, l, idx, ops, start,
                   keepTopDecoys, distConstraints, evalVars, callVars, runVars, auxVars>>

\* _run up to its wait: one subprocess.Popen per supplement.
LaunchBatch ==
    /\ pc = "batch"
    /\ batches < MaxBatches
    /\ procs' = [i \in 1..Len(OutputBasenames(numCPUs)) |-> "running"]
    /\ batches' = batches + 1
    /\ pc' = "waiting"
    /\ UNCHANGED <<disk, scoreFile, scores, lines, newOrder, l, idx, ops, start,
                   keepTopDecoys, distConstraints, evalVars, callVars, constraints,
                   numStruct, numFinished, retcode, workerFailed, tempFiles, result,
                   numCPUs, dirExists, registered, inputExists, splitVars, sortVars, loadVars, addVars, pollVars, moreVars>>

\* A Popen of _run raises (the executable cannot be started): the workers
\* started before it keep running, _exceptionCallback raises again, the
\* finally clause cleans up, and run() returns nothing.
BatchRaises ==
    /\ pc = "batch"
    /\ \E j \in 1..Len(OutputBasenames(numCPUs)) :
         procs' = [i \in 1..(j - 1) |-> "running"]
    /\ disk' = CleanUp(disk, tempFiles).disk
    /\ tempFiles' = CleanUp(disk, tempFiles).tempFiles
    /\ result' = "exception"
    /\ pc' = "raised"
    /\ UNCHANGED <<scoreFile, scores, lines, newOrder, l, idx, ops, start, keepTopDecoys,
                   distConstraints, evalVars, callVars, constraints, numStruct,
                   numFinished, retcode, batches, workerFailed, numCPUs, dirExists,
                   registered, inputExists, splitVars, sortVars, loadVars, addVars, pollVars, moreVars>>

\* A running worker writes the first decoy it was asked for that is not in
\* the directory, and its line of the score file. (The workers are followed
\* while _run waits for them, not after an exception has left run().)
WorkerWrite ==
    \E i \in DOMAIN procs :
        /\ pc = "waiting"
        /\ procs[i] = "running"
        /\ LET basename == OutputBasenames(numCPUs)[i]
               asked == GenerateSupplements(numStruct, numCPUs)[i]
               missing == {k \in 1..asked : CanonName(basename, k) \notin DOMAIN disk}
           IN  /\ missing # {}
               /\ LET n == CanonName(basename, CHOOSE k \in missing : \A j \in missing : k <= j)
                  IN  \E g \in {GeomNear, GeomFar}, sc \in ScoreValues :
                        /\ disk' = Put(disk, n, [id |-> n, geom |-> g])
                        /\ scoreFile' = scoreFile \cup {WorkerLine(n, sc)}
        /\ UNCHANGED <<scores, lines, newOrder, l, idx, ops, pc, start, keepTopDecoys,
                       distConstraints, evalVars, callVars, runVars, auxVars>>

\* A running worker is killed while it writes a line of the score file: the
\* line is cut short and the exit code is not 0. (The worker is followed as
\* the last one running: what the others write after its death they may as
\* well have written before, the wait of _run ends in the same directory.)
WorkerKilled ==
    \E i \in DOMAIN procs :
        /\ pc = "waiting"
        /\ procs[i] = "running"
        /\ \A j \in DOMAIN procs : j # i => procs[j] # "running"
        /\ procs' = [procs EXCEPT ![i] = "failed"]
        /\ scoreFile' = scoreFile \cup {MalformedLine}
        /\ UNCHANGED <<disk, scores, lines, newOrder, l, idx, ops, pc, start,
                       keepTopDecoys, distConstraints, evalVars, callVars, runVars,
                       numCPUs, dirExists, registered, inputExists, splitVars, sortVars,
                       loadVars, addVars, pollVars, moreVars>>

\* A running worker exits, with code 0 or not, whatever it has written.
WorkerExit ==
    \E i \in DOMAIN procs, code \in {"ok", "failed"} :
        /\ pc = "waiting"
        /\ procs[i] = "running"
        /\ procs' = [procs EXCEPT ![i] = code]
        /\ UNCHANGED <<ledgerVars, distConstraints, evalVars, callVars, runVars,
                       numCPUs, dirExists, registered, inputExists, splitVars, sortVars, loadVars, addVars, pollVars, moreVars>>

\* _run from its wait on: every worker has exited, retcode is computed and
\* _run returns. (procs keeps the exit codes of the last batch.)
BatchDone ==
    /\ pc = "waiting"
    /\ AllExited(procs)
    /\ retcode' = BatchRetcode(procs)
    /\ workerFailed' = (workerFailed \/ BatchRetcode(procs) = 1)
    /\ pc' = IF constraints = <<>> THEN "postRun" ELSE "filter"
    /\ UNCHANGED <<disk, scoreFile, scores, lines, newOrder, l, idx, ops, start,
                   keepTopDecoys, distConstraints, evalVars, callVars, constraints,
                   numStruct, numFinished, batches, tempFiles, result, auxVars>>

\* The wait of _run is interrupted (KeyboardInterrupt, or os.listdir of
\* _countCompleted raises): the workers keep running, the finally clause
\* cleans up, and the exception leaves run().
WaitRaises ==
    /\ pc = "waiting"
    /\ disk' = CleanUp(disk, tempFiles).disk
    /\ tempFiles' = CleanUp(disk, tempFiles).tempFiles
    /\ result' = "exception"
    /\ pc' = "raised"
    /\ UNCHANGED <<scoreFile, scores, lines, newOrder, l, idx, ops, start, keepTopDecoys,
                   distConstraints, evalVars, callVars, constraints, numStruct,
                   numFinished, retcode, batches, workerFailed, auxVars>>

\* numFinished = self._pdbFilter.parseDecoys(), and 'return 2' through the
\* finally clause when it is False.
RunFilter ==
    /\ pc = "filter"
    /\ \E out \in ParseDecoys(disk, scoreFile, distConstraints,
                             Elems(OutputBasenames(numCPUs))) :
         /\ scoreFile' = out.file
         /\ scores' = out.L.scores
         /\ lines' = out.L.lines
         /\ IF out.raised
            THEN /\ disk' = CleanUp(out.disk, tempFiles).disk
                 /\ tempFiles' = CleanUp(out.disk, tempFiles).tempFiles
                 /\ result' = "exception"
                 /\ pc' = "raised"
                 /\ UNCHANGED numFinished
            ELSE IF out.returnsFalse
            THEN /\ disk' = CleanUp(out.disk, tempFiles).disk
                 /\ tempFiles' = CleanUp(out.disk, tempFiles).tempFiles
                 /\ result' = "2"
                 /\ pc' = "returned"
                 /\ UNCHANGED numFinished
            ELSE /\ disk' = out.disk
                 /\ numFinished' = out.kept
                 /\ pc' = "loopTest"
                 /\ UNCHANGED <<tempFiles, result>>
    /\ UNCHANGED <<newOrder, l, idx, ops, start, keepTopDecoys, distConstraints,
                   evalVars, callVars, constraints, numStruct, retcode, batches,
                   workerFailed, auxVars>>

\* _postRun, _successPostRun and the finally clause's _cleanUp of a run that
\* raised nothing.
PostRun ==
    /\ pc = "postRun"
    /\ disk' = CleanUp(disk, tempFiles).disk
    /\ tempFiles' = CleanUp(disk, tempFiles).tempFiles
    /\ pc' = "rename"
    /\ UNCHANGED <<scoreFile, scores, lines, newOrder, l, idx, ops, start, keepTopDecoys,
                   distConstraints, evalVars, callVars, constraints, numStruct,
                   numFinished, retcode, batches, workerFailed, result, auxVars>>

\* 'return retcode', after _renameDecoys.
RunReturn ==
    /\ pc = "renamed"
    /\ result' = ReturnCode(retcode)
    /\ pc' = "returned"
    /\ UNCHANGED <<disk, scoreFile, scores, lines, newOrder, l, idx, ops, start,
                   keepTopDecoys, distConstraints, evalVars, callVars, constraints,
                   numStruct, numFinished, retcode, batches, workerFailed, tempFiles,
                   auxVars>>

NextRun ==
    \/ RunStartNoInput
    \/ RunStart
    \/ SetupRaises
    \/ LoopTest
    \/ LaunchBatch
    \/ BatchRaises
    \/ WorkerWrite
    \/ WorkerExit
    \/ WorkerKilled
    \/ BatchDone
    \/ WaitRaises
    \/ RunFilter
    \/ PostRun
    \/ OrderAndTrimDecoys
    \/ ReorderIter
    \/ LedgerStep
    \/ FileStep
    \/ ReorderSave
    \/ RunReturn

SpecRun == InitRun /\ [][NextRun]_vars

\* The decoys of the output directory: the files that parseDecoys looks at.
Decoys == {n \in DOMAIN disk : MatchesBasenames(n, Elems(OutputBasenames(numCPUs)))}
\* A file's structure satisfies every constraint of the run, by the
\* definition of a distance constraint.
SatisfiesAll(n) ==
    \A k \in 1..Len(constraints) : HasAtomPair(disk[n].geom, constraints[k])
\* The run is past its retry loop without a raise or an early return.
PastLoop ==
    \/ pc \in {"postRun", "rename", "reorder", "renamed"}
    \/ pc = "returned" /\ result \in {"0", "1"}

\* C8: in a run with constraints a batch is launched only while the last
\* filtering pass (or the initial 0) left fewer than numStruct accepted
\* decoys, the loop is left only when a pass returned at least numStruct,
\* at which point that many satisfying decoys are in the directory, and
\* from the loop test the next step is a batch exactly when n < numStruct.
C8_RetryUntilEnoughAccepted ==
    /\ [](constraints # <<>> =>
            /\ (pc = "batch" => numFinished < numStruct)
            /\ (PastLoop => numFinished >= numStruct)
            /\ (pc = "postRun" => Cardinality(Decoys) >= numStruct))
    /\ [][(constraints # <<>> /\ pc = "loopTest") =>
            (pc' = IF numFinished < numStruct THEN "batch" ELSE "postRun")]_vars
\* A second batch was needed, and the loop has been left.
C8_Witness ==
    /\ constraints # <<>> /\ pc = "postRun"
    /\ batches >= 2 /\ numFinished >= numStruct

\* C9: when the retry loop of a constrained run is left normally, every
\* decoy in the output directory satisfies every registered constraint, and
\* every ledger entry of the score file names such a decoy.
C9_SurvivorsSatisfyConstraints ==
    (constraints # <<>> /\ pc = "postRun") =>
        /\ \A n \in Decoys : SatisfiesAll(n)
        /\ \A ln \in scoreFile : KeyOfLine(ln) \in Decoys
\* The loop is left after a pass that rejected a decoy of an earlier batch.
C9_Witness ==
    /\ constraints # <<>> /\ pc = "postRun"
    /\ batches >= 2 /\ numStruct = 1
    /\ Decoys # {}

\* C10: a run that returns, and in which some worker of some batch exited
\* with a nonzero code, does not return 0.
C10_WorkerFailureSurfaces ==
    (pc = "returned" /\ workerFailed) => result # "0"

\* run() has been left: it returned, or an exception left it.
RunLeft == pc \in {"returned", "raised"}

\* C11: once run() has been left, by a normal return, by 'return 3', by
\* 'return 2' or by an exception of the setup, of a batch or of the
\* filtering, no path that was registered in _tempFiles exists; nor does one
\* during _renameDecoys, which comes after the finally clause.
C11_TempFilesCleaned ==
    (RunLeft \/ pc \in {"rename", "reorder", "renamed"}) =>
        \A n \in registered : n \notin DOMAIN disk
\* An exception left run() during a batch of a seeded run whose copies had
\* all been registered.
C11_Witness ==
    /\ pc = "raised" /\ batches >= 1 /\ numCPUs = 2
    /\ registered = Elems(SetupPaths(numCPUs))

\* C12: with no input file run() goes from its start straight to 'return
\* 3': no batch was launched, no worker exists, and the step changes neither
\* the directory (which is not created, and receives no copy), nor the
\* score file, nor the ledger.
C12_MissingInputReturns3 ==
    /\ [](~inputExists /\ pc # "start" =>
            /\ pc = "returned" /\ result = "3"
            /\ batches = 0 /\ procs = <<>> /\ registered = {})
    /\ [][~inputExists =>
            UNCHANGED <<disk, dirExists, scoreFile, scores, lines, tempFiles>>]_vars
\* run() has returned 3 and the output directory was never made.
C12_Witness == ~inputExists /\ pc = "returned" /\ result = "3" /\ ~dirExists

\* The coordinator is at a step that evaluates, deletes or renames decoys or
\* rewrites the score file.
CoordinatorActs == pc \in {"filter", "loopTest", "postRun", "rename", "reorder", "renamed"}

\* C13: while the coordinator filters, trims, renames or saves the score
\* file, no worker of the batch is running.
C13_NoWorkAmidBatch ==
    CoordinatorActs => \A i \in DOMAIN procs : procs[i] # "running"
\* The filter runs after a batch of two workers, one of which failed.
C13_Witness ==
    /\ pc = "filter" /\ DOMAIN procs = {1, 2}
    /\ procs[1] = "failed" /\ procs[2] = "ok"

\* ------------------------------------ SeedInputPdbs._generateSupplements
\* The largest '-nstruct' and numCPUs that are split.
MaxSplitStruct == 9
MaxSplitCPUs == 4

InitSplit ==
    /\ numStruct \in 0..MaxSplitStruct
    /\ numCPUs \in 1..MaxSplitCPUs
    /\ supps = <<>>
    /\ structLeft = numStruct
    /\ cpusLeft = numCPUs
    /\ pc = "split"
    /\ disk = Empty /\ scoreFile = {} /\ scores = Empty /\ lines = Empty
    /\ newOrder = <<>> /\ l = <<>> /\ idx = 0 /\ ops = <<>>
    /\ start = NoStart
    /\ keepTopDecoys = 0
    /\ distConstraints = Empty
    /\ EvalIdle /\ CallsIdle
    /\ constraints = RunConstraints /\ numFinished = 0
    /\ retcode = 0 /\ batches = 0 /\ workerFailed = FALSE /\ tempFiles = <<>>
    /\ result = "none"
    /\ procs = <<>> /\ dirExists = TRUE /\ registered = {} /\ inputExists = TRUE
    /\ SortIdle /\ LoadIdle /\ AddIdle /\ PollIdle /\ MoreIdle

\* One iteration of 'for name in basenames'.
SplitStep ==
    /\ pc = "split"
    /\ Len(supps) < Len(OutputBasenames(numCPUs))
    /\ supps' = Append(supps, Round(structLeft, cpusLeft))
    /\ structLeft' = structLeft - Round(structLeft, cpusLeft)
    /\ cpusLeft' = NextSlots(cpusLeft)
    /\ UNCHANGED <<ledgerVars, distConstraints, evalVars, callVars, runVars, poolVars,
                   sortVars, loadVars, addVars, pollVars, moreVars>>

\* 'return supps'
SplitReturn ==
    /\ pc = "split"
    /\ Len(supps) = Len(OutputBasenames(numCPUs))
    /\ pc' = "splitDone"
    /\ UNCHANGED <<disk, scoreFile, scores, lines, newOrder, l, idx, ops, start,
                   keepTopDecoys, distConstraints, evalVars, callVars, runVars, auxVars>>

NextSplit == SplitStep \/ SplitReturn

SpecSplit == InitSplit /\ [][NextSplit]_vars

\* The sum of a list of numbers.
RECURSIVE SumSeq(_)
SumSeq(seq) == IF seq = <<>> THEN 0 ELSE Head(seq) + SumSeq(Tail(seq))

\* C14: the '-nstruct' values of the supplements are never negative, there
\* is one per worker, and when the generator returns they add up to the
\* '-nstruct' of the run; they are the counts the workers of a run are
\* given.
C14_SplitIsExact ==
    /\ \A i \in 1..Len(supps) : supps[i] >= 0
    /\ structLeft >= 0
    /\ pc = "splitDone" =>
         /\ Len(supps) = numCPUs
         /\ SumSeq(supps) = numStruct
         /\ supps = GenerateSupplements(numStruct, numCPUs)
\* Five decoys over two workers: round(2.5) = 3, then 2.
C14_Witness ==
    pc = "splitDone" /\ numStruct = 5 /\ numCPUs = 2 /\ supps = <<3, 2>>

\* -------------------------------------------------------- ScoresDict.sort
\* The largest number of records of a ledger that is sorted.
MaxSortNames == 3

\* 'a.pdb', 'b.pdb', ..: the names of the records.
SortNames ==
    [i \in 1..5 |-> [stem |-> << <<"a", "b", "c", "d", "e">>[i] >>, digits |-> <<>>,
                     ext |-> <<"pdb">>]]
SortPool == {SortNames[i] : i \in 1..MaxSortNames}
\* The header of a docking score file: total_score, and Fnat, the fraction
\* of the native contacts (in tenths).
SortHeader == <<"total_score", "Fnat">>
TotalScoreValues == {-10, -5}
FnatValues == {1, 9}

\* __determineType, the ranking metric for a list of metrics.
RankingMetric(metricList) ==
    IF "total_score" \in Range(metricList) THEN "total_score"
    ELSE IF "total_energy" \in Range(metricList) THEN "total_energy"
    ELSE IF "score" \in Range(metricList) THEN "score"
    ELSE metricList[1]

\* ScoresDict.sort(metric): sorted(self, key=lambda name: self[name][metric]),
\* with the ranking metric for a metric that the header does not have.
\* sorted() is stable over the arbitrary iteration order of the dict.
Sort(sc, metric, metricList) ==
    LET m == IF metric \in Range(metricList) THEN metric ELSE RankingMetric(metricList)
    IN  {s \in Perms(DOMAIN sc) :
            \A a, b \in 1..Len(s) : a < b => sc[s[a]][m] <= sc[s[b]][m]}

InitSort ==
    /\ \E S \in SUBSET SortPool :
       \E ts \in [S -> TotalScoreValues], fn \in [S -> FnatValues] :
            scores = [n \in S |-> [total_score |-> ts[n], Fnat |-> fn[n]]]
    /\ lines = Empty /\ scoreFile = {} /\ disk = Empty
    /\ metrics = SortHeader
    /\ sortMetric \in {"total_score", "Fnat", "rms"}
    /\ sortResult = <<>>
    /\ pc = "sort"
    /\ newOrder = <<>> /\ l = <<>> /\ idx = 0 /\ ops = <<>>
    /\ start = NoStart
    /\ keepTopDecoys = 0
    /\ distConstraints = Empty
    /\ EvalIdle /\ CallsIdle /\ RunIdle /\ PoolIdle /\ SplitIdle /\ LoadIdle /\ AddIdle /\ PollIdle /\ MoreIdle

\* sd.sort(sortMetric)
SortCall ==
    /\ pc = "sort"
    /\ sortResult' \in Sort(scores, sortMetric, metrics)
    /\ pc' = "sorted"
    /\ UNCHANGED <<disk, scoreFile, scores, lines, newOrder, l, idx, ops, start,
                   keepTopDecoys, distConstraints, evalVars, callVars, runVars, poolVars,
                   splitVars, metrics, sortMetric, loadVars, addVars, pollVars, moreVars>>

NextSort == SortCall

SpecSort == InitSort /\ [][NextSort]_vars

\* The metrics for which a higher value is the better one; for every other
\* metric the lower value is.
HigherIsBetterMetrics == {"Fnat"}

\* C15: sort(metric) for a metric of the header returns every key once,
\* best first: by ascending value for a lower-is-better metric and by
\* descending value for a higher-is-better one; a.pdb (total_score -10)
\* comes before b.pdb (total_score -5) for sort("total_score").
C15_SortBestFirst ==
    (pc = "sorted" /\ sortMetric \in Range(metrics)) =>
        /\ Range(sortResult) = DOMAIN scores
        /\ Len(sortResult) = Cardinality(DOMAIN scores)
        /\ \A a, b \in 1..Len(sortResult) : a < b =>
             IF sortMetric \in HigherIsBetterMetrics
             THEN scores[sortResult[a]][sortMetric] >= scores[sortResult[b]][sortMetric]
             ELSE scores[sortResult[a]][sortMetric] <= scores[sortResult[b]][sortMetric]

\* ------------------------------------------------------- claims on trimming
\* The decoys that orderAndTrimDecoys found: in the directory and in the
\* ledger. A content's id is the name its worker gave it.
Recorded == (DOMAIN start.diskBefore) \cap (DOMAIN start.scoresBefore)
\* The decoys whose content is still in the directory.
Survivors == {n \in Recorded : \E m \in DOMAIN disk : disk[m] = start.diskBefore[n]}
\* min(a, b)
Min(a, b) == IF a <= b THEN a ELSE b

\* C16: after orderAndTrimDecoys has trimmed N recorded decoys to K > 0,
\* min(K, N) of them are in the directory, none of the others scores better
\* than one that stayed, each of the others has its metrics record in the
\* ledger under a '<base>_deleted_NNNN.pdb' key, and the ledger (and, once
\* saved, the score file) has as many records as before.
C16_TrimKeepsBestAndRecords ==
    (pc \in {"reorder", "renamed"} /\ keepTopDecoys > 0 /\ start # NoStart) =>
        /\ Cardinality(Survivors) = Min(keepTopDecoys, Cardinality(Recorded))
        /\ Cardinality(DOMAIN disk) = Cardinality(Survivors)
        /\ \A n \in Survivors : \A d \in Recorded \ Survivors :
             start.scoresBefore[n].total_score <= start.scoresBefore[d].total_score
        /\ \A d \in Recorded \ Survivors :
             \E k \in DOMAIN scores :
                /\ IsDeletedName(k) /\ k \notin DOMAIN disk
                /\ scores[k] = start.scoresBefore[d]
        /\ Cardinality(DOMAIN scores) = Cardinality(DOMAIN start.scoresBefore)
        /\ pc = "renamed" => Cardinality(scoreFile) = Cardinality(DOMAIN start.scoresBefore)
\* Three recorded decoys have been trimmed to the best one and renumbered.
C16_Witness ==
    /\ pc = "renamed" /\ keepTopDecoys = 1
    /\ Cardinality(Recorded) = 3 /\ Cardinality(DOMAIN disk) = 1

\* ------------------------------------------------ ScoresDict.__init__
\* The most lines of a score file that is parsed.
MaxFileLines == 3

InitLoad ==
    /\ \E n \in 0..MaxFileLines, h \in HeaderChoices :
         \/ \E b \in [1..n -> RawLineChoices] : rawFile = [header |-> h, body |-> b]
         \/ \E b \in [1..n -> ScenarioLineChoices] : rawFile = [header |-> h, body |-> b]
    /\ suffix \in SuffixChoices
    /\ scoreType = "None" /\ rankingMetric = "None"
    /\ header = <<>>
    /\ scores = Empty /\ lines = Empty
    /\ pc = "load"
    /\ disk = Empty /\ scoreFile = {}
    /\ newOrder = <<>> /\ l = <<>> /\ idx = 0 /\ ops = <<>>
    /\ start = NoStart
    /\ keepTopDecoys = 0
    /\ distConstraints = Empty
    /\ EvalIdle /\ CallsIdle /\ RunIdle /\ PoolIdle /\ SplitIdle /\ SortIdle /\ AddIdle /\ PollIdle /\ MoreIdle

\* ScoresDict(filepath): the constructor parses the file and, when the
\* parser raised nothing, determines the type; pc = "raisedType" when that
\* raised.
Load ==
    /\ pc = "load"
    /\ LET P == ParseScoresFile(rawFile)
           T == DetermineType(P.metrics, suffix, scoreType)
       IN  /\ scores' = P.scores
           /\ lines' = P.lines
           /\ header' = P.header
           /\ metrics' = P.metrics
           /\ scoreType' = IF P.raised THEN scoreType ELSE T.type
           /\ rankingMetric' = IF P.raised THEN P.metrics ELSE T.rankingMetric
           /\ pc' = IF P.raised THEN "raised"
                    ELSE IF T.raised THEN "raisedType" ELSE "loaded"
    /\ UNCHANGED <<disk, scoreFile, newOrder, l, idx, ops, start, keepTopDecoys,
                   distConstraints, evalVars, callVars, runVars, poolVars, splitVars,
                   sortMetric, sortResult, rawFile, suffix, addVars, pollVars, moreVars>>

NextLoad == Load

SpecLoad == InitLoad /\ [][NextLoad]_vars

\* The lines of the file that cannot be parsed.
BadLines == {i \in 1..Len(rawFile.body) : Len(rawFile.body[i]) < 2}

\* C17: the load of a file raises exactly when one of its lines cannot be
\* parsed, and then the dict, the stored lines and the header are empty: no
\* record of a line before the failing one is kept.
C17_NoHalfParsedLedger ==
    /\ pc = "loaded" => BadLines = {}
    /\ pc = "raised" =>
         /\ BadLines # {}
         /\ scores = Empty /\ lines = Empty /\ header = <<>>
\* The third line of a file failed after two records had been parsed.
C17_Witness ==
    /\ pc = "raised"
    /\ BadLines = {3}
    /\ rawFile.body[1] # rawFile.body[2]

\* --------------------------------------------- claims on saving the ledger
\* The ledger that loading the saved text gives.
Reloaded == ParseScoresFile(rawFile)
\* The load of the saved text succeeds and gives the names of the dict, each
\* with its metrics.
RoundTrip == ~Reloaded.raised /\ Reloaded.scores = scores
\* The calls found a ledger as loaded, every name ending with '.pdb'; every
\* call returned and every new name of a rename ends with '.pdb'.
CallsKeepPdbNames ==
    /\ pc = "saved"
    /\ \A n \in DOMAIN (IF calls = <<>> THEN scores ELSE hist[1].scores) : EndsWithPdb(n)
    /\ \A k \in 1..Len(calls) : calls[k].op = "rename" => EndsWithPdb(calls[k].b)

PyStr(v) == [type |-> "str", val |-> v]
PyInt(v) == [type |-> "int", val |-> v]
PyFloat(v) == [type |-> "float", val |-> v]
PyNone == [type |-> "NoneType", val |-> <<>>]

\* The residue codes tried: 'R1B', ' r1b ' and 'g2a', the empty string, a
\* blank, and None.
ResChoices ==
    {PyStr(<<"R", "1", "B">>), PyStr(<<" ", "r", "1", "b", " ">>), PyStr(<<"g", "2", "a">>),
     PyStr(<<>>), PyStr(<<" ">>), PyNone}
\* The chains tried: 'T', 't', 'U' and None, a chain being the list of its
\* characters.
ChainChoices == {PyStr(<<"T">>), PyStr(<<"t">>), PyStr(<<"U">>), PyNone}
\* The distances tried: 10, 5.0 and the text 'x'.
DistChoices == {PyInt(10), PyFloat(5), PyStr("x")}

\* str.upper on one character.
UpperChar(c) ==
    CASE c = "r" -> "R" [] c = "b" -> "B" [] c = "g" -> "G" [] c = "a" -> "A"
      [] c = "t" -> "T" [] c = "u" -> "U"
      [] OTHER -> c
\* str.upper
Upper(str) == [i \in 1..Len(str) |-> UpperChar(str[i])]
\* str.strip: the blanks at both ends go.
RECURSIVE Strip(_)
Strip(str) ==
    IF str = <<>> THEN str
    ELSE IF Head(str) = " " THEN Strip(Tail(str))
    ELSE IF str[Len(str)] = " " THEN Strip(SubSeq(str, 1, Len(str) - 1))
    ELSE str
\* float(dist): the number, or the exception raised.
ToFloat(dist) ==
    CASE dist.type \in {"int", "float"} -> [raised |-> "no", val |-> dist.val]
      [] dist.type = "str" -> [raised |-> "ValueError", val |-> 0]
      [] OTHER -> [raised |-> "TypeError", val |-> 0]

\* The 'if ... not in d: d[k] = [v] else: d[k].append(v)' as a bug would
\* have it: the list is started again.
AppendUnderRestarts(d, k, v) == Put(d, k, <<v>>)

\* if k not in d: d[k] = [v]
\* else: d[k].append(v)
AppendUnder(d, k, v) ==
    IF k \in DOMAIN d THEN [d EXCEPT ![k] = Append(@, v)] ELSE Put(d, k, <<v>>)

\* addDistConstraint(res, toChain, dist) on the constraints dc and the
\* residues to parse rtp: what it leaves and what it returns or raises.
AddDistConstraint(dc, rtp, res, toChain, dist) ==
    IF toChain.type # "str" \/ res.type # "str"
    THEN [dc |-> dc, rtp |-> rtp, ret |-> "False"]
    ELSE LET d == ToFloat(dist)
             r == Upper(Strip(res.val))
             dc2 == AppendUnder(dc, toChain.val, <<r, d.val>>)
         IN  IF d.raised # "no" THEN [dc |-> dc, rtp |-> rtp, ret |-> d.raised]
             ELSE IF r = <<>> THEN [dc |-> dc2, rtp |-> rtp, ret |-> "IndexError"]
             ELSE [dc |-> dc2,
                   rtp |-> AppendUnder(rtp, r[Len(r)], SubSeq(r, 1, Len(r) - 1)),
                   ret |-> "True"]

InitAdd ==
    /\ distConstraints = Empty /\ residuesToParse = Empty
    /\ calls = <<>> /\ hist = <<>>
    /\ pc = "add"
    /\ disk = Empty /\ scoreFile = {} /\ scores = Empty /\ lines = Empty
    /\ newOrder = <<>> /\ l = <<>> /\ idx = 0 /\ ops = <<>>
    /\ start = NoStart
    /\ keepTopDecoys = 0
    /\ EvalIdle /\ RunIdle /\ PoolIdle /\ SplitIdle /\ SortIdle /\ LoadIdle /\ PollIdle /\ MoreIdle

\* filter.addDistConstraint(res, toChain, dist); the call is logged with what
\* it returned and with the constraints it found.
AddCall ==
    /\ pc = "add" /\ Len(calls) < MaxCalls
    /\ \E res \in ResChoices, toChain \in ChainChoices, dist \in DistChoices :
         LET out == AddDistConstraint(distConstraints, residuesToParse, res, toChain, dist)
         IN  /\ distConstraints' = out.dc
             /\ residuesToParse' = out.rtp
             /\ calls' = Append(calls, [res |-> res, toChain |-> toChain, dist |-> dist,
                                        ret |-> out.ret])
             /\ hist' = Append(hist, [dc |-> distConstraints, rtp |-> residuesToParse])
             /\ pc' = IF out.ret \in {"True", "False"} THEN pc ELSE "raised"
    /\ UNCHANGED <<disk, scoreFile, scores, lines, newOrder, l, idx, ops, start,
                   keepTopDecoys, evalVars, runVars, poolVars, splitVars, sortVars,
                   loadVars, pollVars, moreVars>>

NextAdd == AddCall

SpecAdd == InitAdd /\ [][NextAdd]_vars

\* The constraints and the residues to parse after the call k.
AfterAdd(k) ==
    IF k = Len(calls) THEN [dc |-> distConstraints, rtp |-> residuesToParse]
    ELSE hist[k + 1]
\* The list of the chain in dc.
ListOf(dc, chain) == IF chain \in DOMAIN dc THEN dc[chain] ELSE <<>>
\* The call k was made with a residue or a chain that is not a string.
NonStringCall(k) == calls[k].res.type # "str" \/ calls[k].toChain.type # "str"
\* The call k was made with strings and a number.
StringCall(k) ==
    /\ calls[k].res.type = "str" /\ calls[k].toChain.type = "str"
    /\ calls[k].dist.type \in {"int", "float"}
\* The call k returned false and changed nothing.
Rejected(k) == calls[k].ret = "False" /\ AfterAdd(k) = hist[k]
\* The call k returned true and appended the residue, its blanks stripped and
\* in upper case, with the distance to the list of the chain.
Appended(k) ==
    /\ calls[k].ret = "True"
    /\ ListOf(AfterAdd(k).dc, calls[k].toChain.val) =
         Append(ListOf(hist[k].dc, calls[k].toChain.val),
                <<Upper(Strip(calls[k].res.val)), calls[k].dist.val>>)

\* C19 as stated: a call with a residue or a chain that is not a string
\* returns false and changes neither the constraints nor the residues to
\* parse; a call with strings and a number returns true and appends the
\* residue and the distance to the list of the chain.
C19_AddConstraintChecksTypes ==
    \A k \in 1..Len(calls) :
        /\ NonStringCall(k) => Rejected(k)
        /\ StringCall(k) => Appended(k)

\* C19 amended: a call with a residue or a chain that is not a string returns
\* false and changes nothing; a call with strings and a number, the residue
\* not blank, returns true and appends the residue and the distance to the
\* list of the chain.
C19_AddConstraintChecksTypesNotBlank ==
    \A k \in 1..Len(calls) :
        /\ NonStringCall(k) => Rejected(k)
        /\ StringCall(k) /\ Strip(calls[k].res.val) # <<>> => Appended(k)
\* A constraint was added, and a call with None for the residue or the chain
\* that followed was turned down.
C19_Witness ==
    /\ Len(calls) = 2
    /\ StringCall(1) /\ calls[1].ret = "True"
    /\ calls[1].res.val # Upper(Strip(calls[1].res.val))
    /\ NonStringCall(2) /\ calls[2].ret = "False"
    /\ Len(ListOf(distConstraints, calls[1].toChain.val)) = 1
    /\ DOMAIN residuesToParse = {"B"}

\* ------------------------------------------ claims on constraint rejection
\* C20: when the filtering pass deletes the file of a recorded decoy, the
\* decoy's metrics stay in the ledger under a '<base>_deleted_NNNN.pdb' key.
C20_RejectedRecordKept ==
    [][pc = "filterDir" =>
         \A n \in DOMAIN disk :
            (n \notin DOMAIN disk' /\ n \in DOMAIN LoadScores(scoreFile).scores) =>
                \E k \in DOMAIN scores' :
                   /\ IsDeletedName(k)
                   /\ scores'[k] = LoadScores(scoreFile).scores[n]]_vars

\* ------------------------------------------------ claims on the run's result
\* C21: when the filtering step of a run finds a score file that cannot be
\* parsed, run() returns 2.
C21_UnparseableLedgerReturns2 ==
    [][pc = "filter" /\ Unparseable(scoreFile) => result' = "2"]_vars

\* C22: the workers of a batch are min(numCPUs, numStruct) in number, and
\* each is asked for one decoy at least.
C22_LaunchesMinWorkers ==
    pc = "waiting" =>
        /\ Len(procs) = Min(numCPUs, numStruct)
        /\ \A i \in DOMAIN procs : GenerateSupplements(numStruct, numCPUs)[i] >= 1

\* ------------------------------------------- BaseClass._run, polling mode
\* _run from the launch of its workers on, not silent: the loop that counts
\* the decoys of the directory while a worker runs, and the report after it.
\*
\* BaseClass._countCompleted: the files of the directory named as decoys.
CountCompleted(D, basenames) ==
    Cardinality({n \in DOMAIN D : MatchesBasenames(n, basenames)})

\* 'if count != prevCount' as a bug would have it: every poll reports.
CountChangedAlways(count, prev) == TRUE

\* 'if count != prevCount' of _run.
CountChanged(count, prev) == count # prev

\* The workers of one batch have just been launched in an output directory
\* that may hold a decoy of an earlier batch.
InitPoll ==
    /\ numStruct \in 1..MaxStruct
    /\ numCPUs \in 1..MaxCPUs
    /\ procs = [i \in 1..Len(OutputBasenames(numCPUs)) |-> "running"]
    /\ \E S \in SUBSET {CanonName(OutputBasenames(numCPUs)[1], 1)} :
         /\ disk = [n \in S |-> [id |-> n, geom |-> GeomNear]]
         /\ scoreFile = {WorkerLine(n, 1) : n \in S}
    /\ prevCount = -1 /\ reports = <<>>
    /\ pc = "waiting"
    /\ batches = 1
    /\ scores = Empty /\ lines = Empty
    /\ newOrder = <<>> /\ l = <<>> /\ idx = 0 /\ ops = <<>>
    /\ start = NoStart
    /\ keepTopDecoys = 0
    /\ distConstraints = Empty
    /\ constraints = <<>>
    /\ numFinished = 0 /\ retcode = 0 /\ workerFailed = FALSE
    /\ tempFiles = <<>>
    /\ dirExists = TRUE /\ registered = {} /\ inputExists = TRUE
    /\ result = "none"
    /\ EvalIdle /\ CallsIdle /\ SplitIdle /\ SortIdle /\ LoadIdle /\ AddIdle /\ MoreIdle

\* One turn of 'while None in (p.poll() for p in procs)': the decoys are
\* counted and the count is reported when it is not the one reported last.
Poll ==
    /\ pc = "waiting"
    /\ ~AllExited(procs)
    /\ LET count == CountCompleted(disk, Elems(OutputBasenames(numCPUs)))
       IN  IF CountChanged(count, prevCount)
           THEN /\ reports' = Append(reports, count)
                /\ prevCount' = count
           ELSE UNCHANGED <<reports, prevCount>>
    /\ UNCHANGED <<ledgerVars, distConstraints, evalVars, callVars, runVars, poolVars,
                   splitVars, sortVars, loadVars, addVars, moreVars>>

\* The loop is left, every worker having exited, and the count is reported
\* once more: self._reportProgress(self._countCompleted(), total).
FinalReport ==
    /\ pc = "waiting"
    /\ AllExited(procs)
    /\ reports' = Append(reports, CountCompleted(disk, Elems(OutputBasenames(numCPUs))))
    /\ pc' = "polled"
    /\ UNCHANGED <<disk, scoreFile, scores, lines, newOrder, l, idx, ops, start,
                   keepTopDecoys, distConstraints, evalVars, callVars, runVars, poolVars,
                   splitVars, sortVars, loadVars, addVars, moreVars, prevCount>>

NextPoll == WorkerWrite \/ WorkerExit \/ Poll \/ FinalReport

SpecPoll == InitPoll /\ [][NextPoll]_vars

\* C23 as stated: no two consecutive progress reports of a batch carry the
\* same count.
C23_NoRepeatedReport ==
    \A i \in 1..(Len(reports) - 1) : reports[i] # reports[i + 1]

\* C23 amended: in the polling loop the count is reported only when it is
\* not the count reported last, so two consecutive reports of a batch carry
\* the same count only when the second is the one made after the loop.
C23_NoRepeatedReportInLoop ==
    /\ \A i \in 1..(Len(reports) - 1) :
          reports[i] = reports[i + 1] => (pc = "polled" /\ i + 1 = Len(reports))
    /\ pc = "waiting" /\ reports # <<>> => reports[Len(reports)] = prevCount
\* Three counts were reported in the loop, each different from the one
\* before, and the report after the loop repeated the last of them.
C23_Witness ==
    /\ pc = "polled" /\ Len(reports) = 4
    /\ reports[1] = 0 /\ reports[2] = 1 /\ reports[3] = 2 /\ reports[4] = 2

\* --------------------------------------- claims on the number of swaps
\* The number a canonical name ends with: rank i of the list is held by the
\* file that was numbered RankOf(order)[i].
NumberOf(name) == CHOOSE k \in 1..(MaxN + 1) : name = CanonName(Basename, k)
\* p applied k times to i.
RECURSIVE Iterate(_, _, _)
Iterate(p, i, k) == IF k = 0 THEN i ELSE Iterate(p, p[i], k - 1)
\* The number of cycles of the permutation p of 1..Len(p): the elements that
\* are the least of their cycle.
Cycles(p) ==
    Cardinality({i \in 1..Len(p) : \A k \in 1..Len(p) : Iterate(p, i, k) >= i})
\* newOrder is a permutation of base_0001 .. base_N.
PurePermutation ==
    /\ newOrder # <<>>
    /\ Elems(newOrder) = CanonNames(Len(newOrder))
    /\ DOMAIN start.disk = CanonNames(Len(newOrder))
\* The calls of one kind that __reorderDecoys made.
CallsOf(kind) == {k \in 1..Len(calls) : calls[k].op = kind}

\* C24: when __reorderDecoys has returned from a list that is a permutation
\* of base_0001 .. base_N, it has called renameFiles not once and swapFiles
\* N minus the number of cycles of the permutation times, the directory holds
\* the names it held, and the file ranked i is base_i.
C24_MinimumSwaps ==
    pc = "renamed" /\ PurePermutation =>
        LET N == Len(newOrder)
            p == [i \in 1..N |-> NumberOf(newOrder[i])]
        IN  /\ CallsOf("renameFiles") = {}
            /\ Cardinality(CallsOf("swapFiles")) = N - Cycles(p)
            /\ DOMAIN disk = DOMAIN start.disk
            /\ \A i \in 1..N : disk[CanonName(Basename, i)] = start.disk[newOrder[i]]
\* The ranks (base_0002, base_0003, base_0001) were renumbered with two swaps.
C24_Witness ==
    /\ pc = "renamed" /\ PurePermutation
    /\ newOrder = << CanonName(Basename, 2), CanonName(Basename, 3),
                     CanonName(Basename, 1) >>
    /\ Cardinality(CallsOf("swapFiles")) = 2
    /\ disk[CanonName(Basename, 1)].id = CanonName(Basename, 2)
    /\ disk[CanonName(Basename, 2)].id = CanonName(Basename, 3)
    /\ disk[CanonName(Basename, 3)].id = CanonName(Basename, 1)

\* ------------------------------------------------ the effect of one swap
\* The call k is swap(a, b) with a # b, both keys of the ledger it found.
SwappedOnce(k) ==
    /\ calls[k].op = "swap" /\ calls[k].a # calls[k].b
    /\ calls[k].a \in DOMAIN hist[k].scores
    /\ calls[k].b \in DOMAIN hist[k].scores
\* The call k raised nothing, exchanged the records of a and b, left every
\* other key with its record, the number of records as it was, and no key
\* a + '.temp'.
ExchangedBy(k) ==
    LET a == calls[k].a
        b == calls[k].b
        before == hist[k].scores
        after == LedgerAfter(k).scores
    IN  /\ (k = Len(calls) => pc # "raised")
        /\ {a, b} \subseteq DOMAIN after
        /\ after[a] = before[b] /\ after[b] = before[a]
        /\ \A n \in (DOMAIN before) \ {a, b} : n \in DOMAIN after /\ after[n] = before[n]
        /\ Cardinality(DOMAIN after) = Cardinality(DOMAIN before)
        /\ TempName(a) \notin DOMAIN after

\* C25 as stated: swap(a, b), a # b both keys of the ledger, leaves a with
\* the record of b and b with the record of a, every other key with its
\* record, as many records as before, and no key a + '.temp'.
C25_SwapExchanges == \A k \in 1..Len(calls) : SwappedOnce(k) => ExchangedBy(k)

\* C25 amended: the same of a ledger that has no key a + '.temp' when swap
\* is called.
C25_SwapExchangesNoTemp ==
    \A k \in 1..Len(calls) :
        SwappedOnce(k) /\ TempName(calls[k].a) \notin DOMAIN hist[k].scores
        => ExchangedBy(k)

\* Two of three records, their metrics different, were swapped by the last
\* call; the ledger had no key a + '.temp'.
C25_Witness ==
    /\ pc = "ledger" /\ Len(calls) >= 1
    /\ SwappedOnce(Len(calls))
    /\ TempName(calls[Len(calls)].a) \notin DOMAIN hist[Len(calls)].scores
    /\ Cardinality(DOMAIN hist[Len(calls)].scores) = 3
    /\ hist[Len(calls)].scores[calls[Len(calls)].a] # hist[Len(calls)].scores[calls[Len(calls)].b]

\* ----------------------------------------------- the effect of one rename
\* The call k is rename(old, new) with old # new, old a key of the ledger it
\* found and new not.
RenamedOnce(k) ==
    /\ calls[k].op = "rename" /\ calls[k].a # calls[k].b
    /\ calls[k].a \in DOMAIN hist[k].scores
    /\ calls[k].b \notin DOMAIN hist[k].scores
\* The call k raised nothing and left the ledger as it found it.
NothingChangedBy(k) ==
    /\ (k = Len(calls) => pc # "raised")
    /\ LedgerAfter(k) = hist[k]
\* The call k raised nothing; new has the record old had and its score line
\* with the last token rewritten to new, old is no key, every other record
\* and line is as it was, and there are as many records as before.
MovedBy(k) ==
    LET old == calls[k].a
        new == calls[k].b
        before == hist[k]
        after == LedgerAfter(k)
    IN  /\ (k = Len(calls) => pc # "raised")
        /\ new \in DOMAIN after.scores /\ after.scores[new] = before.scores[old]
        /\ after.lines[new] = [before.lines[old] EXCEPT !.token = new]
        /\ old \notin DOMAIN after.scores /\ old \notin DOMAIN after.lines
        /\ \A n \in (DOMAIN before.scores) \ {old} :
             /\ n \in DOMAIN after.scores /\ after.scores[n] = before.scores[n]
             /\ after.lines[n] = before.lines[n]
        /\ Cardinality(DOMAIN after.scores) = Cardinality(DOMAIN before.scores)
        /\ DOMAIN after.lines = DOMAIN after.scores

\* C26: rename(old, new), old a key, new not a key and old # new, leaves new
\* with the metrics record of old and its score line ending with new, old no
\* key, every other record unchanged and as many records as before;
\* rename(x, x) changes nothing, whether x is a key or not.
C26_RenameMoves ==
    \A k \in 1..Len(calls) :
        /\ RenamedOnce(k) => MovedBy(k)
        /\ calls[k].op = "rename" /\ calls[k].a = calls[k].b => NothingChangedBy(k)

\* A record of a ledger of two was renamed to a new name, then a name that
\* is no key was renamed to itself.
C26_Witness ==
    /\ pc = "ledger" /\ Len(calls) = 2
    /\ RenamedOnce(1) /\ Cardinality(DOMAIN hist[1].scores) = 2
    /\ hist[1].lines[calls[1].a].token # calls[1].b
    /\ calls[2].op = "rename" /\ calls[2].a = calls[2].b
    /\ calls[2].a \notin DOMAIN hist[2].scores

\* ------------------------------------------- the effect of one markDeleted
\* The largest index a deleted name can need: one more than the records.
MaxDeleted == MaxN + MaxCalls + 1
\* The call k is markDeleted(name), name a key of the ledger it found.
MarkedOnce(k) == calls[k].op = "markDeleted" /\ calls[k].a \in DOMAIN hist[k].scores
\* The lowest index i >= 1 for which the name made of b and i is no key of
\* the ledger the call k found.
LowestUnused(k, Name(_, _), b) ==
    CHOOSE i \in 1..MaxDeleted :
        /\ Name(b, i) \notin DOMAIN hist[k].scores
        /\ \A j \in 1..(i - 1) : Name(b, j) \in DOMAIN hist[k].scores
\* '%s_deleted_%04d' % (basename, n): the deleted name without '.pdb'.
DeletedNameNoExt(basename, n) == [DeletedName(basename, n) EXCEPT !.ext = <<>>]
\* The call k raised nothing; the record of name is under the name made of
\* name[:-9] and the lowest unused index, with the metrics it had; name is
\* no key, every other key has the record it had, and there are as many
\* records as before.
MarkedBy(k, Name(_, _)) ==
    LET name == calls[k].a
        before == hist[k].scores
        after == LedgerAfter(k).scores
        new == Name(StripNine(name), LowestUnused(k, Name, StripNine(name)))
    IN  /\ (k = Len(calls) => pc # "raised")
        /\ new \notin DOMAIN before
        /\ new \in DOMAIN after /\ after[new] = before[name]
        /\ name \notin DOMAIN after
        /\ \A n \in (DOMAIN before) \ {name} : n \in DOMAIN after /\ after[n] = before[n]
        /\ Cardinality(DOMAIN after) = Cardinality(DOMAIN before)
\* The name the call k gave its record: the key the call added.
NameGivenBy(k) == (DOMAIN LedgerAfter(k).scores) \ (DOMAIN hist[k].scores)
\* Two calls of markDeleted never gave the same name.
DeletedNamesDistinct ==
    \A j, k \in 1..Len(calls) :
        j < k /\ MarkedOnce(j) /\ MarkedOnce(k) => NameGivenBy(j) \cap NameGivenBy(k) = {}

Kinds == {"docking", "homology", "floppytail", "loopmodel", "abinitio", "unknown"}
\* total_score if present, else total_energy, else score, else the first
\* metric.
FirstPresent(metricList) ==
    IF InSeq("total_score", metricList) THEN "total_score"
    ELSE IF InSeq("total_energy", metricList) THEN "total_energy"
    ELSE IF InSeq("score", metricList) THEN "score"
    ELSE metricList[1]
\* The ranking metric is a metric of the header, the first present of
\* total_score, total_energy, score and the first metric.
RankingMetricRule ==
    /\ InSeq(rankingMetric, metrics)
    /\ rankingMetric = FirstPresent(metrics)
\* The header has total_score without I_sc and aln_len and the suffix is not
\* 'sc', or it has score without total_score and total_energy and the suffix
\* is not 'fsc'.
NoTypeMatches ==
    \/ /\ InSeq("total_score", metrics)
       /\ ~InSeq("I_sc", metrics) /\ ~InSeq("aln_len", metrics)
       /\ suffix # "sc"
    \/ /\ ~InSeq("total_score", metrics) /\ ~InSeq("total_energy", metrics)
       /\ InSeq("score", metrics)
       /\ suffix # "fsc"

TrailingKey(line) ==
    LET last == line[Len(line)]
    IN  IF EndsWithPdb(last) THEN last ELSE [last EXCEPT !.ext = Append(@, "pdb")]
\* The lines of the file whose record the dict holds: for each key the last
\* line that ends with it.
LinesKept ==
    {i \in 1..Len(rawFile.body) :
        \A j \in (i + 1)..Len(rawFile.body) :
            TrailingKey(rawFile.body[j]) # TrailingKey(rawFile.body[i])}
\* The columns of the header from the column first on that are not the
\* description and that the line has before its last token.
MetricColumns(first, line) ==
    {c \in first..Len(rawFile.header) :
        rawFile.header[c] # "description" /\ c < Len(line)}
\* The record of every line kept maps the header's columns from first on,
\* and no other, to the values of the line in the same columns.
ColumnsLoaded(first) ==
    \A i \in LinesKept :
        LET line == rawFile.body[i]
            rec == scores[TrailingKey(line)]
        IN  /\ DOMAIN rec = {rawFile.header[c] : c \in MetricColumns(first, line)}
            /\ \A c \in MetricColumns(first, line) : rec[rawFile.header[c]] = line[c]

\* C29 as stated: a load maps every column of the header but the description
\* to the value in the same column of each line, under the key the line ends
\* with; the file of header 'total_score I_sc description' and lines
\* '-10 -3 a.pdb' and '-5 -1 b.pdb' gives a.pdb -> {total_score: -10,
\* I_sc: -3} and b.pdb -> {total_score: -5, I_sc: -1}.
C29_LoadMapsHeaderColumns ==
    pc = "loaded" /\ rawFile.header = ScenarioHeader => ColumnsLoaded(1)

\* C29 amended: a load maps every column of the header but the first and the
\* description to the value in the same column of each line, under the key
\* the line ends with; the scenario's file gives its records when header and
\* lines begin with the column 'SCORE:', and a.pdb -> {I_sc: -3} and
\* b.pdb -> {I_sc: -1} as it is written.
C29_LoadMapsColumnsAfterFirst ==
    pc = "loaded" =>
        /\ DOMAIN scores = {TrailingKey(rawFile.body[i]) : i \in LinesKept}
        /\ ColumnsLoaded(2)
        /\ rawFile = [header |-> ScenarioHeader,
                      body |-> << <<-10, -3, ScenarioA>>, <<-5, -1, ScenarioB>> >>]
           => scores = [n \in {ScenarioA, ScenarioB} |->
                            [I_sc |-> IF n = ScenarioA THEN -3 ELSE -1]]

\* The scenario's file, header and lines beginning with 'SCORE:', was loaded
\* and gave the scenario's records.
C29_Witness ==
    /\ pc = "loaded"
    /\ rawFile = [header |-> LabelledHeader,
                  body |-> << <<"SCORE:", -10, -3, ScenarioA>>, <<"SCORE:", -5, -1, ScenarioB>> >>]
    /\ scores = [n \in {ScenarioA, ScenarioB} |->
                    IF n = ScenarioA THEN [total_score |-> -10, I_sc |-> -3]
                    ELSE [total_score |-> -5, I_sc |-> -1]]

\* --------------------------------------- the retry loop has no cap
\* The score file can be parsed and has a score line, and no decoy in the
\* directory satisfies the constraints: what a filtering pass finds when the
\* workers wrote scored decoys none of which is acceptable.
AllDecoysFail ==
    /\ constraints # <<>>
    /\ ~LoadScores(scoreFile).raised /\ DOMAIN LoadScores(scoreFile).scores # {}
    /\ \A n \in Decoys : ~SatisfiesAll(n)

\* C30: the retry loop has no cap. A filtering pass that finds only failing
\* decoys returns 0, the run going back to the loop test; from the loop test
\* with no decoy accepted the next step is a batch, however many batches
\* there have been; and while no pass has accepted a decoy the run has not
\* passed the loop nor returned. (MaxBatches ends the behaviours of the
\* model, not the loop: its test does not read the number of batches.)
C30_NoIterationCap ==
    /\ [][pc = "filter" /\ AllDecoysFail =>
            pc' = "loopTest" /\ numFinished' = 0 /\ result' = "none"]_vars
    /\ [][pc = "loopTest" /\ constraints # <<>> /\ numFinished = 0 => pc' = "batch"]_vars
    /\ [](constraints # <<>> /\ batches >= 1 /\ numFinished = 0 /\ scoreFile # {}
            => ~PastLoop /\ pc # "returned")

\* The last batch that the bound allows has been filtered, every decoy of
\* every batch failed the constraints and was removed, and the loop test is
\* about to ask for another batch.
C30_Witness ==
    /\ constraints # <<>> /\ pc = "loopTest"
    /\ batches = MaxBatches /\ numFinished = 0
    /\ Decoys = {} /\ ~workerFailed
    /\ LoopContinues(numFinished, numStruct)

\* ------------------------------------------- the two maps of the ledger
\* The lines of the saved text.
SavedLines == {rawFile.body[i] : i \in 1..Len(rawFile.body)}

\* C38: after calls of remove, rename, swap and markDeleted that all
\* returned, on a loaded ledger, the dict and self.lines have the same keys,
\* after each of the calls as well; a save then writes one line for each
\* record, the line stored under its key.
C38_MapsAligned ==
    pc \in {"ledger", "saved"} =>
        /\ DOMAIN scores = DOMAIN lines
        /\ \A k \in 1..Len(hist) : DOMAIN hist[k].scores = DOMAIN hist[k].lines
        /\ pc = "saved" =>
             /\ Len(rawFile.body) = Cardinality(DOMAIN scores)
             /\ SavedLines = {LineTokens(lines[n]) : n \in DOMAIN scores}

\* A record was removed and another renamed, both calls returned, and the
\* two records left were saved.
C38_Witness ==
    /\ pc = "saved" /\ Len(calls) = 2
    /\ \E j, k \in 1..2 :
         /\ calls[j].op = "remove" /\ calls[j].a \in DOMAIN hist[j].scores
         /\ calls[k].op = "rename" /\ calls[k].a \in DOMAIN hist[k].scores
         /\ calls[k].b \notin DOMAIN hist[k].scores
    /\ Cardinality(DOMAIN scores) = 2

\* ------------------------------------------ rename onto a name that is held
\* The call k is rename(old, new) with old # new, both keys of the ledger it
\* found.
RenamedOntoHeld(k) ==
    /\ calls[k].op = "rename" /\ calls[k].a # calls[k].b
    /\ calls[k].a \in DOMAIN hist[k].scores
    /\ calls[k].b \in DOMAIN hist[k].scores

\* C39: rename(old, new), old # new both keys, raises nothing and leaves new
\* with the record and the line of old; there is one record fewer, old is no
\* key, every other key has its record, and the record that new had is under
\* no key.
C39_RenameOverwritesHeld ==
    \A k \in 1..Len(calls) :
        RenamedOntoHeld(k) =>
            LET old == calls[k].a
                new == calls[k].b
                before == hist[k]
                after == LedgerAfter(k)
            IN  /\ (k = Len(calls) => pc # "raised")
                /\ after.scores[new] = before.scores[old]
                /\ after.lines[new] = [before.lines[old] EXCEPT !.token = new]
                /\ DOMAIN after.scores = (DOMAIN before.scores) \ {old}
                /\ Cardinality(DOMAIN after.scores) = Cardinality(DOMAIN before.scores) - 1
                /\ \A n \in (DOMAIN before.scores) \ {old, new} :
                     after.scores[n] = before.scores[n]
                /\ \A n \in DOMAIN after.scores : after.scores[n] # before.scores[new]
                /\ \A n \in DOMAIN after.lines : after.lines[n] # before.lines[new]

\* A record of a ledger of three was renamed onto the name of another, whose
\* record was different: two records are left.
C39_Witness ==
    /\ pc = "ledger" /\ Len(calls) >= 1
    /\ RenamedOntoHeld(Len(calls))
    /\ Cardinality(DOMAIN hist[Len(calls)].scores) = 3
    /\ hist[Len(calls)].scores[calls[Len(calls)].a] # hist[Len(calls)].scores[calls[Len(calls)].b]
    /\ Cardinality(DOMAIN scores) = 2

\* ------------------------------------------------- calls that fail
\* The last call is swap(a, b) with a # b, a a key of the ledger it found
\* and b not.
SwapOntoAbsent ==
    /\ Len(calls) >= 1
    /\ calls[Len(calls)].op = "swap" /\ calls[Len(calls)].a # calls[Len(calls)].b
    /\ calls[Len(calls)].a \in DOMAIN hist[Len(calls)].scores
    /\ calls[Len(calls)].b \notin DOMAIN hist[Len(calls)].scores
\* The last call is rename(old, new) with old # new and old no key of the
\* ledger it found.
RenameOfAbsent ==
    /\ Len(calls) >= 1
    /\ calls[Len(calls)].op = "rename" /\ calls[Len(calls)].a # calls[Len(calls)].b
    /\ calls[Len(calls)].a \notin DOMAIN hist[Len(calls)].scores

C32_IdentifiersNormalized ==
    \A k \in 1..Len(calls) :
        calls[k].ret = "True" =>
            LET chain == Upper(Strip(calls[k].toChain.val))
                res == Upper(Strip(calls[k].res.val))
            IN  /\ DOMAIN AfterAdd(k).dc = (DOMAIN hist[k].dc) \cup {chain}
                /\ ListOf(AfterAdd(k).dc, chain) =
                     Append(ListOf(hist[k].dc, chain), <<res, calls[k].dist.val>>)
                /\ res[Len(res)] \in DOMAIN AfterAdd(k).rtp

\* ---------------------------- parseDecoys, file by file, over the text of
\* ---------------------------- the files (pdbFilter.py)
\* The largest number of decoys of the directory of a pass.
MaxPassFiles == 2
\* A coordinate field of an ATOM line: text that float() converts to v, or
\* text on which float() raises ValueError.
Coord(v) == [ok |-> TRUE, v |-> v]
BadCoord == [ok |-> FALSE, v |-> 0]
\* One line of a pdb file: atom is line.startswith('ATOM'), hydrogen is
\* line[13] == 'H', chainID is line[21], resCodeNum is line[17:20] joined to
\* line[22:26].strip(), and x, y, z are line[30:38], line[38:46], line[46:54].
PdbLine(atom, hydrogen, chainID, resCodeNum, x, y, z) ==
    [atom |-> atom, hydrogen |-> hydrogen, chainID |-> chainID,
     resCodeNum |-> resCodeNum, x |-> x, y |-> y, z |-> z]
\* The line of PHE171 of chain B, at the origin.
LinePhe == PdbLine(TRUE, FALSE, "B", "PHE171", Coord(0), Coord(0), Coord(0))
\* The lines LYS89 of chain T can have: 5 A from the origin, 30 A from it, or
\* with an x field that is not a number.
LineLysNear == PdbLine(TRUE, FALSE, "T", "LYS89", Coord(3), Coord(4), Coord(0))
LineLysFar == PdbLine(TRUE, FALSE, "T", "LYS89", Coord(30), Coord(0), Coord(0))
LineLysBad == PdbLine(TRUE, FALSE, "T", "LYS89", BadCoord, Coord(4), Coord(0))
\* Lines the parser passes over: an atom of a chain that no constraint names,
\* a hydrogen and a line that is not an ATOM line, each with a bad x field.
LineOtherChain == PdbLine(TRUE, FALSE, "X", "ALA1", BadCoord, Coord(0), Coord(0))
LineHydrogen == PdbLine(TRUE, TRUE, "T", "LYS89", BadCoord, Coord(0), Coord(0))
LineRemark == PdbLine(FALSE, FALSE, "T", "LYS89", BadCoord, Coord(0), Coord(0))
\* A path that cannot be opened, and the text of a file that can.
AbsentFile == [exists |-> FALSE, text |-> <<>>]
FileOf(text) == [exists |-> TRUE, text |-> text]
\* The files of the model: the absent one; PHE171B or not, followed by one of
\* the LYS89 lines or none; and the near decoy with a passed-over line first.
FileChoices ==
    {AbsentFile}
        \cup {FileOf(phe \o lys) :
                phe \in {<<>>, <<LinePhe>>},
                lys \in {<<>>, <<LineLysNear>>, <<LineLysFar>>, <<LineLysBad>>}}
        \cup {FileOf(<<skipped, LinePhe, LineLysNear>>) :
                skipped \in {LineOtherChain, LineHydrogen, LineRemark}}

\* res[-1] of addDistConstraint, for the residues of this model: the chain of
\* the constrained residue.
ChainOfRes(res) ==
    CASE res = "PHE171B" -> "B"
      [] res = "ARG10B" -> "B"
      [] res = "GLY20B" -> "B"
\* The keys of self.residuesToParse after the constraints cs were registered.
ResiduesToParseKeys(cs) == {ChainOfRes(cs[k][1]) : k \in 1..Len(cs)}

\* pa.setdefault(chainID, {}).setdefault(resCodeNum, []) ... append((x,y,z)):
\* the atom is added to the list of its residue (proteinNs is the first atom
\* of that list).
AddProteinAtom(G, chainID, resCodeNum, xyz) ==
    LET chain == IF chainID \in DOMAIN G.proteinAtoms THEN G.proteinAtoms[chainID]
                 ELSE Empty
        atoms == IF resCodeNum \in DOMAIN chain THEN chain[resCodeNum] ELSE <<>>
    IN  [G EXCEPT !.proteinAtoms = Put(@, chainID, Put(chain, resCodeNum, Append(atoms, xyz)))]
\* ra.setdefault(resCodeNum, []) ... append((x,y,z)), resCodeNum being the
\* residue code followed by the chain.
AddResidueAtom(G, resKey, xyz) ==
    LET atoms == IF resKey \in DOMAIN G.residueAtoms THEN G.residueAtoms[resKey] ELSE <<>>
    IN  [G EXCEPT !.residueAtoms = Put(@, resKey, Append(atoms, xyz))]

\* The body of 'for line in f' for one line: [raised, G]. The three float()
\* calls are made only for a chain of dc or rtp.
ParseLine(G, line, dc, rtp) ==
    IF ~line.atom \/ line.hydrogen THEN [raised |-> FALSE, G |-> G]
    ELSE IF line.chainID \notin DOMAIN dc /\ line.chainID \notin rtp
    THEN [raised |-> FALSE, G |-> G]
    ELSE IF ~(line.x.ok /\ line.y.ok /\ line.z.ok)
    THEN [raised |-> TRUE, G |-> G]
    ELSE LET xyz == <<line.x.v, line.y.v, line.z.v>>
             G1 == IF line.chainID \in DOMAIN dc
                   THEN AddProteinAtom(G, line.chainID, line.resCodeNum, xyz) ELSE G
             G2 == IF line.chainID \in rtp
                   THEN AddResidueAtom(G1, line.resCodeNum \o line.chainID, xyz) ELSE G1
         IN  [raised |-> FALSE, G |-> G2]

RECURSIVE ParsePdbLines(_, _, _, _)
ParsePdbLines(G, text, dc, rtp) ==
    IF text = <<>> THEN [error |-> "none", G |-> G]
    ELSE LET r == ParseLine(G, Head(text), dc, rtp)
         IN  IF r.raised THEN [error |-> "ValueError", G |-> r.G]
             ELSE ParsePdbLines(r.G, Tail(text), dc, rtp)

\* __parseCoordsFromPdb: [error, G], G being the four dicts as the call leaves
\* them. open() raising leaves f unbound, so that f.close() of the finally
\* clause raises UnboundLocalError; a float() that raises leaves through the
\* finally clause with its ValueError; otherwise the function returns True.
ParseCoordsFromPdb(file, dc, rtp) ==
    IF ~file.exists THEN [error |-> "UnboundLocalError", G |-> NoGeometry]
    ELSE ParsePdbLines(NoGeometry, file.text, dc, rtp)

\* __checkPdbConstraints over the text of a file: [error, G, value]. The four
\* dicts are reset, the file is parsed ('if not ...: return False' is never
\* taken, the parser returning True or raising), and the constraints tested.
CheckPdbConstraintsOfFile(file, dc, rtp, chainOrder) ==
    LET p == ParseCoordsFromPdb(file, dc, rtp)
        t == TestConstraints(p.G, dc, chainOrder)
    IN  IF p.error # "none" THEN [error |-> p.error, G |-> p.G, value |-> FALSE]
        ELSE IF t = "KeyError" THEN [error |-> "KeyError", G |-> p.G, value |-> FALSE]
        ELSE [error |-> "none", G |-> p.G, value |-> (t = "True")]

\* A directory of at most MaxPassFiles decoys, each with a line in the score
\* file, and a filter with the constraint of the runs of this model.
InitPass ==
    /\ \E k \in 0..MaxPassFiles :
         /\ \E t \in [CanonNames(k) -> FileChoices] :
              disk = [n \in CanonNames(k) |-> [id |-> n, file |-> t[n]]]
         /\ scoreFile = {WorkerLine(n, 1) : n \in CanonNames(k)}
    /\ scores = Empty /\ lines = Empty
    /\ newOrder = <<>> /\ l = <<>> /\ idx = 0 /\ ops = <<>>
    /\ pc = "pass"
    /\ start = NoStart
    /\ keepTopDecoys = 0
    /\ distConstraints = AddDistConstraints(Empty, RunConstraints)
    /\ EvalIdle /\ CallsIdle /\ RunIdle
    /\ PoolIdle /\ SplitIdle /\ SortIdle /\ LoadIdle /\ AddIdle /\ PollIdle
    /\ PassIdle /\ OdIdle

\* parseDecoys up to its loop: the ScoresDict is loaded (an empty one makes
\* the call return False) and os.listdir yields the files in some order.
PassStart ==
    /\ pc = "pass"
    /\ LET sd == LoadScores(scoreFile)
       IN  /\ scores' = sd.scores
           /\ lines' = sd.lines
           /\ IF sd.raised
              THEN /\ pc' = "raised"
                   /\ passResult' = [kind |-> "raised", value |-> 0, error |-> "ValueError"]
                   /\ UNCHANGED fileList
              ELSE IF DOMAIN sd.scores = {}
              THEN /\ pc' = "passDone"
                   /\ passResult' = [kind |-> "returnedFalse", value |-> 0, error |-> "none"]
                   /\ UNCHANGED fileList
              ELSE /\ pc' = "passLoop"
                   /\ fileList' \in Perms({n \in DOMAIN disk : MatchesBasenames(n, {Basename})})
                   /\ UNCHANGED passResult
    /\ UNCHANGED <<disk, scoreFile, newOrder, l, idx, ops, start, keepTopDecoys,
                   distConstraints, evalVars, callVars, runVars, poolVars, splitVars,
                   sortVars, loadVars, addVars, pollVars, fileIdx, parsed, filesToKeep,
                   deleted, odVars>>

\* One turn of 'for filename in os.listdir(self.workingDir)': the file is
\* evaluated; a file that fails is removed from the directory and from the
\* ScoresDict, one that passes is appended to filesToKeep, and an exception
\* of the evaluation leaves parseDecoys, which has no handler.
PassStep ==
    /\ pc = "passLoop"
    /\ fileIdx < Len(fileList)
    /\ LET filename == fileList[fileIdx + 1]
       IN  \E chainOrder \in Perms(DOMAIN distConstraints) :
             LET r == CheckPdbConstraintsOfFile(disk[filename].file, distConstraints,
                                                ResiduesToParseKeys(constraints), chainOrder)
                 L == LedgerRemove([scores |-> scores, lines |-> lines, raised |-> FALSE],
                                   filename)
             IN  /\ parsed' = r.G
                 /\ fileIdx' = fileIdx + 1
                 /\ IF r.error # "none"
                    THEN /\ pc' = "raised"
                         /\ passResult' = [kind |-> "raised", value |-> 0, error |-> r.error]
                         /\ UNCHANGED <<disk, scores, lines, deleted, filesToKeep>>
                    ELSE IF r.value
                    THEN /\ filesToKeep' = Append(filesToKeep, filename)
                         /\ UNCHANGED <<disk, scores, lines, deleted, pc, passResult>>
                    ELSE /\ disk' = Drop(disk, filename)
                         /\ scores' = L.scores
                         /\ lines' = L.lines
                         /\ deleted' = Put(deleted, filename, disk[filename])
                         /\ UNCHANGED <<filesToKeep, pc, passResult>>
    /\ UNCHANGED <<scoreFile, newOrder, l, idx, ops, start, keepTopDecoys,
                   distConstraints, evalVars, callVars, runVars, poolVars, splitVars,
                   sortVars, loadVars, addVars, pollVars, fileList, odVars>>

\* The loop is left: self.scoresDict.saveScores() and return len(filesToKeep).
PassEnd ==
    /\ pc = "passLoop"
    /\ fileIdx = Len(fileList)
    /\ scoreFile' = SaveScores([scores |-> scores, lines |-> lines, raised |-> FALSE])
    /\ passResult' = [kind |-> "returned", value |-> Len(filesToKeep), error |-> "none"]
    /\ pc' = "passDone"
    /\ UNCHANGED <<disk, scores, lines, newOrder, l, idx, ops, start, keepTopDecoys,
                   distConstraints, evalVars, callVars, runVars, poolVars, splitVars,
                   sortVars, loadVars, addVars, pollVars, fileList, fileIdx, parsed,
                   filesToKeep, deleted, odVars>>

NextPass == PassStart \/ PassStep \/ PassEnd

SpecPass == InitPass /\ [][NextPass]_vars

\* The file the loop has just evaluated, as it was when it was evaluated.
LastFile ==
    IF fileList[fileIdx] \in DOMAIN disk THEN disk[fileList[fileIdx]].file
    ELSE deleted[fileList[fileIdx]].file
\* The loop has evaluated a file and nothing has happened since.
JustEvaluated == pc \in {"passLoop", "raised"} /\ fileIdx >= 1

\* The text of the file has, on an atom line of a chain that is parsed, a
\* coordinate field that float() refuses.
ConversionFails(file) ==
    /\ file.exists
    /\ ParsePdbLines(NoGeometry, file.text, distConstraints,
                     ResiduesToParseKeys(constraints)).error = "ValueError"
\* The file the loop has just evaluated was removed as failing its
\* constraints, and the loop goes on.
LastFileRejected ==
    /\ pc = "passLoop"
    /\ fileList[fileIdx] \notin DOMAIN disk
    /\ fileList[fileIdx] \in DOMAIN deleted
    /\ fileList[fileIdx] \notin DOMAIN scores

\* C33 as stated: the evaluation of a path that cannot be opened leaves the
\* four geometry dicts empty and raises no error.
C33_AbsentFileSilent ==
    JustEvaluated /\ ~LastFile.exists
        => parsed = NoGeometry /\ pc # "raised" /\ passResult.kind # "raised"

\* C34 as stated: a file with a coordinate field that fails the numeric
\* conversion is rejected as failing its constraints and the pass goes on to
\* the remaining files; the pass does not abort.
C34_ParseFailureRejectsOne ==
    JustEvaluated /\ ConversionFails(LastFile) => LastFileRejected

\* C35 as stated: a file that is parsed without error and holds no atom of
\* the target chain T, or no atom of the constrained residue PHE171B, is
\* rejected (the evaluation gives false) and raises no error.
C35_MissingAtomsRejected ==
    /\ JustEvaluated
    /\ LastFile.exists
    /\ ~ConversionFails(LastFile)
    /\ \E k \in 1..Len(constraints) :
          \/ constraints[k][2] \notin DOMAIN parsed.proteinAtoms
          \/ constraints[k][1] \notin DOMAIN parsed.residueAtoms
    => LastFileRejected

\* _renameDecoys has trimmed and renumbered the decoys the run produced: the
\* directory holds the ranks base_0001 .. base_N and nothing else, at most
\* keepTopDecoys of them when a limit is set, each with its score line.
Ranked ==
    /\ start # NoStart
    /\ DOMAIN disk = CanonNames(Len(newOrder))
    /\ keepTopDecoys > 0 => Len(newOrder) <= keepTopDecoys
    /\ CanonNames(Len(newOrder)) \subseteq {KeyOfLine(ln) : ln \in scoreFile}

\* C31: a step in which a worker exits with a nonzero code leaves the
\* coordinator waiting, every other worker of the batch as it was and run()
\* not returned; the wait is left normally only when no worker is running,
\* for the same next stage (the filtering pass, or _postRun without
\* constraints) whatever the exit codes, with the directory and the score
\* file untouched; _postRun is followed by _renameDecoys; and a run that
\* returns 0 or 1 after a worker failed, with a score line written, has
\* trimmed and renumbered the decoys.
C31_WorkerFailureNonFatal ==
    /\ [][\A i \in DOMAIN procs :
            (i \in DOMAIN procs' /\ procs[i] = "running" /\ procs'[i] = "failed") =>
                /\ pc = "waiting" /\ pc' = "waiting"
                /\ result' = "none"
                /\ \A j \in (DOMAIN procs) \ {i} : procs'[j] = procs[j]]_vars
    /\ [][(pc = "waiting" /\ pc' \notin {"waiting", "raised"}) =>
            /\ \A i \in DOMAIN procs : procs[i] # "running"
            /\ pc' = IF constraints = <<>> THEN "postRun" ELSE "filter"
            /\ UNCHANGED <<disk, scoreFile, procs>>]_vars
    /\ [][pc = "postRun" => pc' = "rename"]_vars
    /\ []((pc = "returned" /\ result \in {"0", "1"} /\ workerFailed /\ scoreFile # {})
            => Ranked)
\* A run of two workers, the first of which exited with a nonzero code and
\* the second with 0, has returned 1 after
\* trimming the decoys to keepTopDecoys and renumbering them.
C31_Witness ==
    /\ pc = "returned" /\ result = "1" /\ workerFailed
    /\ DOMAIN procs = {1, 2} /\ procs[1] = "failed" /\ procs[2] = "ok"
    /\ Ranked
    /\ keepTopDecoys > 0
    /\ Cardinality(DOMAIN start.diskBefore) > Cardinality(DOMAIN disk)

\* _renameDecoys has done nothing: no list was ranked, no decoy trimmed, no
\* renameFiles or swapFiles call made, no key marked deleted.
NothingRanked ==
    /\ start = NoStart /\ newOrder = <<>> /\ l = <<>> /\ idx = 0
    /\ calls = <<>> /\ ops = <<>>
    /\ \A ln \in scoreFile : ~IsDeletedName(KeyOfLine(ln))
    /\ \A n \in DOMAIN disk : ~IsTemp(n)

\* C37: _renameDecoys is entered only from the end of the try block
\* (_postRun and the finally clause of a run that raised nothing and did not
\* return early); a run that returned 3 or 2, or that an exception has left,
\* has ranked nothing, trimmed and renamed no decoy, and takes no further
\* step, so that the score file stays as the try block left it.
C37_RankingOnlyOnNormalPath ==
    /\ [][pc' = "rename" => pc = "postRun"]_vars
    /\ [][pc' = "reorder" => pc \in {"rename", "reorder"}]_vars
    /\ []((pc = "returned" /\ result \in {"2", "3"}) \/ pc = "raised" => NothingRanked)
    /\ [][~((pc = "returned" /\ result \in {"2", "3"}) \/ pc = "raised")]_vars
\* The filtering pass of a run found no score line after its first batch:
\* run() returned 2 and nothing was ranked.
C37_Witness ==
    /\ pc = "returned" /\ result = "2" /\ batches >= 1
    /\ NothingRanked

\* ------------------------------------------------ OrderedDict (util.py)
\* The keys and the values of the items.
OdKeyPool == {"a", "b", "c"}
OdValues == {1, 2}
\* The plain dicts that update is called with.
OdArgs == UNION {[K -> OdValues] : K \in SUBSET OdKeyPool}
\* What a call gave: its name, the exception that left it ("none" when it
\* returned), and the key and value it returned ("none" and 0 when it
\* returned neither).
Call(op, error, key, value) == [op |-> op, error |-> error, key |-> key, value |-> value]
\* list.remove(x): the first occurrence is taken out.
ListRemove(list, x) ==
    LET i == CHOOSE k \in 1..Len(list) : list[k] = x /\ \A j \in 1..(k - 1) : list[j] # x
    IN  SubSeq(list, 1, i - 1) \o SubSeq(list, i + 1, Len(list))

\* __setitem__: [dict, keys].
OdSet(D, keys, key, value) ==
    [dict |-> Put(D, key, value),
     keys |-> IF InSeq(key, keys) THEN keys ELSE Append(keys, key)]

\* __delitem__: [dict, keys, error]. dict.__delitem__ raises KeyError for a
\* key the dict does not hold, before anything is changed; __keys.remove
\* raises ValueError for a key the list does not hold, the item being gone.
OdDel(D, keys, key) ==
    IF key \notin DOMAIN D THEN [dict |-> D, keys |-> keys, error |-> "KeyError"]
    ELSE IF ~InSeq(key, keys)
    THEN [dict |-> Drop(D, key), keys |-> keys, error |-> "ValueError"]
    ELSE [dict |-> Drop(D, key), keys |-> ListRemove(keys, key), error |-> "none"]

\* update(d): map(self.__setitem__, d, d.values()), order being the order in
\* which d yields its keys.
RECURSIVE OdSetAll(_, _, _, _)
OdSetAll(D, keys, d, order) ==
    IF order = <<>> THEN [dict |-> D, keys |-> keys]
    ELSE LET r == OdSet(D, keys, Head(order), d[Head(order)])
         IN  OdSetAll(r.dict, r.keys, d, Tail(order))

\* clear(): map(self.__delitem__, self.keys()), todo being the list that
\* self.keys() returned; the first exception leaves the call.
RECURSIVE OdDelAll(_, _, _)
OdDelAll(D, keys, todo) ==
    IF todo = <<>> THEN [dict |-> D, keys |-> keys, error |-> "none"]
    ELSE LET r == OdDel(D, keys, Head(todo))
         IN  IF r.error # "none" THEN r ELSE OdDelAll(r.dict, r.keys, Tail(todo))

\* popitem(): dict.popitem(self) takes the item of key k out of the dict
\* (any item), and self.__delitem__(k) then looks k up in the dict again.
OdPopItemOf(D, keys, k) == OdDel(Drop(D, k), keys, k)

\* OrderedDict(): an empty map.
InitOd ==
    /\ odDict = Empty /\ odKeys = <<>> /\ odLast = NoCall
    /\ disk = Empty /\ scoreFile = {} /\ scores = Empty /\ lines = Empty
    /\ newOrder = <<>> /\ l = <<>> /\ idx = 0 /\ ops = <<>>
    /\ pc = "od"
    /\ start = NoStart
    /\ keepTopDecoys = 0
    /\ distConstraints = Empty
    /\ EvalIdle /\ CallsIdle /\ RunIdle
    /\ PoolIdle /\ SplitIdle /\ SortIdle /\ LoadIdle /\ AddIdle /\ PollIdle
    /\ PassIdle

\* self[key] = value
OdSetItem ==
    /\ \E key \in OdKeyPool, value \in OdValues :
         LET r == OdSet(odDict, odKeys, key, value)
         IN  /\ odDict' = r.dict
             /\ odKeys' = r.keys
             /\ odLast' = Call("setitem", "none", key, value)
    /\ UNCHANGED <<ledgerVars, distConstraints, evalVars, callVars, runVars, poolVars,
                   splitVars, sortVars, loadVars, addVars, pollVars, passVars>>

\* del self[key]
OdDelItem ==
    /\ \E key \in OdKeyPool :
         LET r == OdDel(odDict, odKeys, key)
         IN  /\ odDict' = r.dict
             /\ odKeys' = r.keys
             /\ odLast' = Call("delitem", r.error, key, 0)
    /\ UNCHANGED <<ledgerVars, distConstraints, evalVars, callVars, runVars, poolVars,
                   splitVars, sortVars, loadVars, addVars, pollVars, passVars>>

\* pop(key): v = self[key], which raises KeyError for a key the dict does
\* not hold; self.__delitem__(key); return v.
OdPop ==
    /\ \E key \in OdKeyPool :
         IF key \notin DOMAIN odDict
         THEN /\ odLast' = Call("pop", "KeyError", key, 0)
              /\ UNCHANGED <<odDict, odKeys>>
         ELSE LET r == OdDel(odDict, odKeys, key)
              IN  /\ odDict' = r.dict
                  /\ odKeys' = r.keys
                  /\ odLast' = IF r.error # "none" THEN Call("pop", r.error, key, 0)
                               ELSE Call("pop", "none", "none", odDict[key])
    /\ UNCHANGED <<ledgerVars, distConstraints, evalVars, callVars, runVars, poolVars,
                   splitVars, sortVars, loadVars, addVars, pollVars, passVars>>

\* popitem(): dict.popitem raises KeyError on an empty dict; otherwise it
\* takes some item out and __delitem__ is called for its key.
OdPopItem ==
    /\ IF DOMAIN odDict = {}
       THEN /\ odLast' = Call("popitem", "KeyError", "none", 0)
            /\ UNCHANGED <<odDict, odKeys>>
       ELSE \E k \in DOMAIN odDict :
              LET r == OdPopItemOf(odDict, odKeys, k)
              IN  /\ odDict' = r.dict
                  /\ odKeys' = r.keys
                  /\ odLast' = IF r.error # "none" THEN Call("popitem", r.error, k, 0)
                               ELSE Call("popitem", "none", k, odDict[k])
    /\ UNCHANGED <<ledgerVars, distConstraints, evalVars, callVars, runVars, poolVars,
                   splitVars, sortVars, loadVars, addVars, pollVars, passVars>>

\* update(d) with a plain dict d.
OdUpdate ==
    /\ \E d \in OdArgs : \E order \in Perms(DOMAIN d) :
         LET r == OdSetAll(odDict, odKeys, d, order)
         IN  /\ odDict' = r.dict
             /\ odKeys' = r.keys
             /\ odLast' = Call("update", "none", "none", 0)
    /\ UNCHANGED <<ledgerVars, distConstraints, evalVars, callVars, runVars, poolVars,
                   splitVars, sortVars, loadVars, addVars, pollVars, passVars>>

\* clear()
OdClear ==
    /\ LET r == OdDelAll(odDict, odKeys, odKeys)
       IN  /\ odDict' = r.dict
           /\ odKeys' = r.keys
           /\ odLast' = Call("clear", r.error, "none", 0)
    /\ UNCHANGED <<ledgerVars, distConstraints, evalVars, callVars, runVars, poolVars,
                   splitVars, sortVars, loadVars, addVars, pollVars, passVars>>

NextOd == OdSetItem \/ OdDelItem \/ OdPop \/ OdPopItem \/ OdUpdate \/ OdClear

SpecOd == InitOd /\ [][NextOd]_vars

\* C36 as stated: after any sequence of item assignments, deletions, pop,
\* popitem, update and clear calls, the key list holds exactly the keys of
\* the stored items, each once; an assignment to a stored key leaves the
\* list as it was and one to a new key appends it; and popitem on a map
\* that holds items returns one of them, removes it, and leaves the other
\* keys in their order.
C36_KeyListMatchesItems ==
    /\ [](Elems(odKeys) = DOMAIN odDict /\ Len(odKeys) = Cardinality(DOMAIN odDict))
    /\ [][odLast'.op = "setitem" =>
            odKeys' = IF odLast'.key \in DOMAIN odDict THEN odKeys
                      ELSE Append(odKeys, odLast'.key)]_vars
    /\ [][(odLast'.op = "popitem" /\ DOMAIN odDict # {}) =>
            /\ odLast'.error = "none"
            /\ odLast'.key \in DOMAIN odDict
            /\ odLast'.value = odDict[odLast'.key]
            /\ odDict' = Drop(odDict, odLast'.key)
            /\ odKeys' = ListRemove(odKeys, odLast'.key)]_vars

====
